---- MODULE Spec2Model ----
(***************************************************************************)
(* Standard-to-SPIR-V conversion patterns (ConvertStandardToSPIRV.cpp):    *)
(* the rewrite patterns, the attribute conversions, and the device-side    *)
(* execution of the instruction sequences the load/store patterns emit.    *)
(***************************************************************************)
EXTENDS Integers, Sequences, FiniteSets, TLC

VARIABLES
  mem,      \* device memory: word index -> word (a word is the set of its set bit positions)
  mem0,     \* the memory contents before any lane ran
  lanes,    \* lane -> [kind, idx, val, pc, got, at]: the lanes' generated code and position
  srcBits,  \* bit width of the memref element type of the buffer
  srcAttr,  \* the integer attribute given to convertIntegerAttr: [width, value]
  dstWidth, \* the width of the destination integer type
  dstAttr,  \* the attribute convertIntegerAttr returned: [null, width, value]
  attrPc,   \* "in" before the conversion, "out" after it
  op,       \* the operation under conversion, with what the patterns read of it
  tried,    \* the patterns already invoked on op
  res,      \* what the last pattern invocation did and returned
  resourceData,             \* <<set, binding>> -> [size]: the host buffers bound
  resourceStorageClassData, \* <<set, binding>> -> storage class
  hostMemory,               \* <<set, binding>> -> the bytes of the host buffer
  deviceMemoryBufferMap,    \* set -> sequence of [bindingIndex, descriptorType, deviceMemory]
  deviceMemory,             \* handle -> [bytes, origin]: the device allocations
  timestampValidBits,       \* queueFamilyProperties.timestampValidBits of the queue found
  queryPool,                \* "VK_NULL_HANDLE" or "created"
  vkCalls,                  \* the device calls and host checks made so far, with their results
  runPc,                    \* the step VulkanRuntime::run is at
  runStatus,                \* what run returned: "none" while it has not returned
  updateStatus,             \* what updateHostMemoryBuffers returned
  binary,                   \* the shader given to setShaderModule: "nullptr" or "spv"
  binarySize,               \* its size
  memorySize,               \* the device memory size counted by countDeviceMemorySize
  initStatus,               \* what the last call of initRuntime returned
  initCalls,                \* the number of calls of initRuntime so far
  stClassData,              \* the map last given to setResourceStorageClassBindingMap
  destroyCalls,             \* the device calls destroy made, with their results
  destroyStatus             \* what destroy returned

memVars == <<mem, mem0, lanes, srcBits>>

attrVars == <<srcAttr, dstWidth, dstAttr, attrPc>>

patVars == <<op, tried, res>>

vkVars ==
  <<resourceData, resourceStorageClassData, hostMemory, deviceMemoryBufferMap, deviceMemory,
    timestampValidBits, queryPool, vkCalls, runPc, runStatus, updateStatus>>

setupVars == <<binary, binarySize, memorySize, initStatus, initCalls, stClassData>>

destroyVars == <<destroyCalls, destroyStatus>>

vars == <<memVars, attrVars, patVars, vkVars, setupVars, destroyVars>>

\* what the device lanes leave alone
hostVars == <<attrVars, patVars, vkVars, setupVars, destroyVars>>

\* what the attribute conversion leaves alone
notAttrVars == <<memVars, patVars, vkVars, setupVars, destroyVars>>

\* what the patterns leave alone
notPatVars == <<memVars, attrVars, vkVars, setupVars, destroyVars>>

\* what run and updateHostMemoryBuffers leave alone
notVkVars == <<memVars, attrVars, patVars, setupVars, destroyVars>>

(***************************************************************************)
(* Bounds and sample inputs                                                *)
(***************************************************************************)
NumLanes == 3

TargetBits == 32

WordIdx == 0..1

Writers == 1..NumLanes

Observer == 0

Lanes == {Observer} \cup Writers

SourceWidths == {8, 16, 32}

AllBits == 0..(TargetBits - 1)

\* 0xFFFFFFFF and 0x80C35A01
InitWords == {AllBits, {0, 9, 11, 12, 14, 16, 17, 22, 23, 31}}

\* every word starts with the same contents
InitMems == {[w \in WordIdx |-> iw] : iw \in InitWords}

\* 0x000000AB and 0xFFFF5A5A (bits set above every narrow source width)
StoreVals == {{0, 1, 3, 5, 7}, {1, 3, 4, 6, 9, 11, 12, 14} \cup (16..31)}

\* the value each concurrently storing lane stores: neighbouring lanes store
\* different values
LaneVal(l) ==
  IF l % 2 = 1 THEN {0, 1, 3, 5, 7} ELSE {1, 3, 4, 6, 9, 11, 12, 14} \cup (16..31)

(***************************************************************************)
(* SPIR-V integer instructions on TargetBits-wide words.  A word is the    *)
(* set of bit positions that are 1; small scalars (indices, offsets) are   *)
(* integers.                                                               *)
(***************************************************************************)
RECURSIVE Pow2R(_)
Pow2R(n) == IF n = 0 THEN 1 ELSE 2 * Pow2R(n - 1)

Pow2Tab == [n \in 0..(TargetBits - 2) |-> Pow2R(n)]

Pow2(n) == Pow2Tab[n]

\* the word holding the non-negative constant n (n < 2^31)
ConstantOp(n) == {b \in 0..(TargetBits - 2) : (n \div Pow2(b)) % 2 = 1}

BitwiseAndOp(a, b) == a \cap b

BitwiseOrOp(a, b) == a \cup b

NotOp(a) == AllBits \ a

ShiftLeftLogicalOp(a, s) == {b + s : b \in a} \cap AllBits

ShiftRightArithmeticOp(a, s) ==
  {b - s : b \in {c \in a : c >= s}}
    \cup (IF (TargetBits - 1) \in a THEN (TargetBits - s)..(TargetBits - 1) ELSE {})

\* OpSDiv: signed division, rounding toward zero
SDivOp(a, b) ==
  IF (a >= 0) = (b >= 0)
    THEN (IF a >= 0 THEN a ELSE -a) \div (IF b >= 0 THEN b ELSE -b)
    ELSE -((IF a >= 0 THEN a ELSE -a) \div (IF b >= 0 THEN b ELSE -b))

\* OpSMod: remainder whose sign matches the sign of operand 2
SModOp(a, b) == IF b > 0 THEN a % b ELSE -((-a) % (-b))

IMulOp(a, b) == a * b

(***************************************************************************)
(* Narrow-access helpers                                                   *)
(***************************************************************************)
\* the position within the word not scaled to bits
getOffsetForBitwidth_NoScale(srcIdx, sourceBits, targetBits) ==
  SModOp(srcIdx, targetBits \div sourceBits)

\* the index scaled to bits without reducing it to the word first
getOffsetForBitwidth_NoMod(srcIdx, sourceBits, targetBits) == IMulOp(srcIdx, sourceBits)

getOffsetForBitwidth(srcIdx, sourceBits, targetBits) ==
  LET idx == targetBits \div sourceBits
      srcBitsValue == sourceBits
      m == SModOp(srcIdx, idx)
  IN IMulOp(m, srcBitsValue)

\* the last index of the adjusted access chain
adjustAccessChainForBitwidth(lastDim, sourceBits, targetBits) ==
  LET idx == targetBits \div sourceBits
  IN SDivOp(lastDim, idx)

\* the store value shifted without first masking it to the element width
shiftValue_Unmasked(value, offset, mask) == ShiftLeftLogicalOp(value, offset)

shiftValue(value, offset, mask) ==
  LET result == BitwiseAndOp(value, mask)
  IN ShiftLeftLogicalOp(result, offset)

\* a mask one bit wider than the element
ElementMask_OneBitWider(sourceBits) == ConstantOp(Pow2(sourceBits + 1) - 1)

\* rewriter.getIntegerAttr(dstType, (1 << srcBits) - 1)
ElementMask(sourceBits) == ConstantOp(Pow2(sourceBits) - 1)

\* the clear mask without the final complement
StoreClearBitsMask_NoNot(lastDim, sourceBits, targetBits) ==
  ShiftLeftLogicalOp(ElementMask(sourceBits),
                     getOffsetForBitwidth(lastDim, sourceBits, targetBits))

\* IntStoreOpPattern: the value of clearBitsMask
StoreClearBitsMask(lastDim, sourceBits, targetBits) ==
  LET offset == getOffsetForBitwidth(lastDim, sourceBits, targetBits)
      mask == ElementMask(sourceBits)
  IN NotOp(ShiftLeftLogicalOp(mask, offset))

\* the store value masked but left at offset 0
StoreInsertValue_Unshifted(value, lastDim, sourceBits, targetBits) ==
  shiftValue(value, 0, ElementMask(sourceBits))

\* IntStoreOpPattern: the value of storeVal
StoreInsertValue(value, lastDim, sourceBits, targetBits) ==
  LET offset == getOffsetForBitwidth(lastDim, sourceBits, targetBits)
      mask == ElementMask(sourceBits)
  IN shiftValue(value, offset, mask)

\* the load without the final mask
LoadExtract_Unmasked(word, lastDim, sourceBits, targetBits) ==
  ShiftRightArithmeticOp(word, getOffsetForBitwidth(lastDim, sourceBits, targetBits))

\* IntLoadOpPattern: the value replacing the narrow load, from the loaded word
LoadExtract(word, lastDim, sourceBits, targetBits) ==
  LET offset == getOffsetForBitwidth(lastDim, sourceBits, targetBits)
      result == ShiftRightArithmeticOp(word, offset)
      mask == ElementMask(sourceBits)
  IN BitwiseAndOp(result, mask)

(***************************************************************************)
(* Device execution of the emitted sequences                               *)
(***************************************************************************)
NumElems(sb) == Cardinality(WordIdx) * (TargetBits \div sb)

ElemIdx(sb) == 0..(NumElems(sb) - 1)

\* the word index and bit offset an access of element i computes
AccessOf(i, sb) ==
  IF sb = TargetBits THEN <<i, 0>>
  ELSE <<adjustAccessChainForBitwidth(i, sb, TargetBits), getOffsetForBitwidth(i, sb, TargetBits)>>

IdleLane == [kind |-> "idle", idx |-> 0, val |-> {}, pc |-> "done", got |-> {}, at |-> <<>>]

StoreEntry(sb) == IF sb = TargetBits THEN "store" ELSE "and"

StoreLane(sb, i, v) ==
  [kind |-> "store", idx |-> i, val |-> v, pc |-> StoreEntry(sb), got |-> {}, at |-> <<>>]

LoadLane(i) ==
  [kind |-> "load", idx |-> i, val |-> {}, pc |-> "load", got |-> {}, at |-> <<>>]

\* a lane that loads element i and then stores the loaded value back to i
CopyLane(i) ==
  [kind |-> "copy", idx |-> i, val |-> {}, pc |-> "load", got |-> {}, at |-> <<>>]

WriterLanes(sb, v) == {IdleLane} \cup {StoreLane(sb, i, v) : i \in ElemIdx(sb)}

ObserverLanes(sb) ==
  {IdleLane} \cup {LoadLane(i) : i \in ElemIdx(sb)} \cup {CopyLane(i) : i \in ElemIdx(sb)}

AtomicAndOp(l) ==
  /\ lanes[l].pc = "and"
  /\ LET w == adjustAccessChainForBitwidth(lanes[l].idx, srcBits, TargetBits)
         clearBitsMask == StoreClearBitsMask(lanes[l].idx, srcBits, TargetBits)
     IN mem' = [mem EXCEPT ![w] = BitwiseAndOp(@, clearBitsMask)]
  /\ lanes' = [lanes EXCEPT ![l].pc = "or",
                            ![l].at = Append(@, AccessOf(lanes[l].idx, srcBits))]
  /\ UNCHANGED <<mem0, srcBits, hostVars>>

AtomicOrOp(l) ==
  /\ lanes[l].pc = "or"
  /\ LET w == adjustAccessChainForBitwidth(lanes[l].idx, srcBits, TargetBits)
         storeVal == StoreInsertValue(lanes[l].val, lanes[l].idx, srcBits, TargetBits)
     IN mem' = [mem EXCEPT ![w] = BitwiseOrOp(@, storeVal)]
  /\ lanes' = [lanes EXCEPT ![l].pc = "done",
                            ![l].at = Append(@, AccessOf(lanes[l].idx, srcBits))]
  /\ UNCHANGED <<mem0, srcBits, hostVars>>

\* the equal-width path: spv.Store on the unmodified access chain
StoreOp(l) ==
  /\ lanes[l].pc = "store"
  /\ mem' = [mem EXCEPT ![lanes[l].idx] = lanes[l].val]
  /\ lanes' = [lanes EXCEPT ![l].pc = "done",
                            ![l].at = Append(@, AccessOf(lanes[l].idx, srcBits))]
  /\ UNCHANGED <<mem0, srcBits, hostVars>>

AfterLoad(l) == IF lanes[l].kind = "copy" THEN StoreEntry(srcBits) ELSE "done"

\* the narrow path: spv.Load of the whole word, shift and mask in registers
EmulatedLoadOp(l) ==
  /\ lanes[l].pc = "load"
  /\ srcBits < TargetBits
  /\ LET w == adjustAccessChainForBitwidth(lanes[l].idx, srcBits, TargetBits)
         v == LoadExtract(mem[w], lanes[l].idx, srcBits, TargetBits)
     IN lanes' = [lanes EXCEPT ![l].got = v, ![l].val = v, ![l].pc = AfterLoad(l),
                               ![l].at = Append(@, AccessOf(lanes[l].idx, srcBits))]
  /\ UNCHANGED <<mem, mem0, srcBits, hostVars>>

\* the equal-width path: spv.Load on the unmodified access chain
LoadOp(l) ==
  /\ lanes[l].pc = "load"
  /\ srcBits = TargetBits
  /\ LET v == mem[lanes[l].idx]
     IN lanes' = [lanes EXCEPT ![l].got = v, ![l].val = v, ![l].pc = AfterLoad(l),
                               ![l].at = Append(@, AccessOf(lanes[l].idx, srcBits))]
  /\ UNCHANGED <<mem, mem0, srcBits, hostVars>>

NullAttr == [null |-> TRUE, width |-> 0, value |-> 0]

AttrIdle ==
  /\ srcAttr = [width |-> 1, value |-> 0]
  /\ dstWidth = 1
  /\ dstAttr = NullAttr
  /\ attrPc = "in"

PatIdle ==
  /\ op = [name |-> "-"]
  /\ tried = {}
  /\ res = [status |-> "none"]

\* a runtime nobody has given resources to
VkIdle ==
  /\ resourceData = <<>>
  /\ resourceStorageClassData = <<>>
  /\ hostMemory = <<>>
  /\ deviceMemoryBufferMap = <<>>
  /\ deviceMemory = <<>>
  /\ timestampValidBits = 0
  /\ queryPool = "VK_NULL_HANDLE"
  /\ vkCalls = <<>>
  /\ runPc = "idle"
  /\ runStatus = "none"
  /\ updateStatus = "none"
  /\ binary = "nullptr"
  /\ binarySize = 0
  /\ memorySize = 0
  /\ initStatus = "none"
  /\ initCalls = 0
  /\ stClassData = <<>>
  /\ destroyCalls = <<>>
  /\ destroyStatus = "none"

MemIdle ==
  /\ srcBits = TargetBits
  /\ mem0 = [w \in WordIdx |-> {}]
  /\ mem = mem0
  /\ lanes = [l \in Lanes |-> IdleLane]

\* several lanes storing concurrently
InitStore ==
  /\ AttrIdle
  /\ PatIdle
  /\ VkIdle
  /\ srcBits \in SourceWidths
  /\ mem0 \in InitMems
  /\ mem = mem0
  /\ \E ws \in [Writers -> UNION {WriterLanes(srcBits, v) : v \in StoreVals}] :
       /\ \A l \in Writers : ws[l] \in WriterLanes(srcBits, LaneVal(l))
       /\ lanes = [l \in Lanes |-> IF l = Observer THEN IdleLane ELSE ws[l]]

NextStore == \E l \in Lanes : AtomicAndOp(l) \/ AtomicOrOp(l) \/ StoreOp(l)

SpecStore == InitStore /\ [][NextStore]_vars

\* one storing lane and one loading (or copying) lane
InitMem ==
  /\ AttrIdle
  /\ PatIdle
  /\ VkIdle
  /\ srcBits \in SourceWidths
  /\ mem0 \in InitMems
  /\ mem = mem0
  /\ \E v \in StoreVals : \E w \in WriterLanes(srcBits, v), o \in ObserverLanes(srcBits) :
       lanes = [l \in Lanes |-> IF l = Observer THEN o ELSE IF l = 1 THEN w ELSE IdleLane]

NextMem ==
  \E l \in Lanes :
    AtomicAndOp(l) \/ AtomicOrOp(l) \/ StoreOp(l) \/ EmulatedLoadOp(l) \/ LoadOp(l)

SpecMem == InitMem /\ [][NextMem]_vars

(***************************************************************************)
(* Attribute conversion.  An APInt is a bit pattern 0..2^width-1 with its  *)
(* width.                                                                  *)
(***************************************************************************)
MaxWidth == 5

Widths == 1..MaxWidth

RECURSIVE getActiveBits(_)
getActiveBits(p) == IF p = 0 THEN 0 ELSE 1 + getActiveBits(p \div 2)

\* the number of leading one bits of the w-bit pattern p
RECURSIVE countLeadingOnes(_, _)
countLeadingOnes(p, w) ==
  IF w = 0 \/ p < Pow2(w - 1) THEN 0 ELSE 1 + countLeadingOnes(p - Pow2(w - 1), w - 1)

isNegative(a) == a.value >= Pow2(a.width - 1)

getMinSignedBits(a) ==
  IF isNegative(a) THEN a.width - countLeadingOnes(a.value, a.width) + 1
  ELSE getActiveBits(a.value) + 1

isIntN(a, N) == getActiveBits(a.value) <= N

isSignedIntN(a, N) == getMinSignedBits(a) <= N

\* the value zero-extended instead of sign-extended
getInt_ZExt(a) == a.value

\* IntegerAttr::getInt: the value sign-extended to int64_t
getInt(a) == IF isNegative(a) THEN a.value - Pow2(a.width) ELSE a.value

\* Builder::getIntegerAttr(type, int64_t): the value truncated to the type's width
getIntegerAttr(width, v) == [null |-> FALSE, width |-> width, value |-> v % Pow2(width)]

convertIntegerAttr(a, dstW) ==
  IF isIntN(a, dstW) THEN getIntegerAttr(dstW, getInt(a))
  ELSE IF isSignedIntN(a, dstW) THEN getIntegerAttr(dstW, getInt(a))
  ELSE NullAttr

ConvertIntegerAttr ==
  /\ attrPc = "in"
  /\ dstAttr' = convertIntegerAttr(srcAttr, dstWidth)
  /\ attrPc' = "out"
  /\ UNCHANGED <<srcAttr, dstWidth, notAttrVars>>

InitAttr ==
  /\ MemIdle
  /\ PatIdle
  /\ VkIdle
  /\ \E w \in Widths : srcAttr \in [width : {w}, value : 0..(Pow2(w) - 1)]
  /\ dstWidth \in Widths
  /\ dstAttr = NullAttr
  /\ attrPc = "in"

NextAttr == ConvertIntegerAttr

SpecAttr == InitAttr /\ [][NextAttr]_vars

(***************************************************************************)
(* Types, operations and the rewriter                                      *)
(***************************************************************************)
\* a type: kind is "integer", "index", "float", "vector", "tensor", "array",
\* "other" or "null" (no type); a shaped type carries its element kind and width,
\* its number of elements n and its rank
Ty(k, ek, w, n, r) == [kind |-> k, elemKind |-> ek, width |-> w, n |-> n, rank |-> r]

NullType == Ty("null", "-", 0, 0, 0)

IntegerType(w) == Ty("integer", "-", w, 0, 0)

IndexType == Ty("index", "-", 64, 0, 0)

FloatType(w) == Ty("float", "-", w, 0, 0)

VectorType(ek, w, n, r) == Ty("vector", ek, w, n, r)

RankedTensorType(ek, w, n, r) == Ty("tensor", ek, w, n, r)

ArrayType(ek, w, n) == Ty("array", ek, w, n, 1)

isInteger(type, w) == type.kind = "integer" /\ type.width = w

getElementType(type) ==
  IF type.elemKind = "integer" THEN IntegerType(type.width) ELSE FloatType(type.width)

\* only the scalar case
isBoolScalarOrVector_ScalarOnly(type) == isInteger(type, 1)

isBoolScalarOrVector(type) ==
  IF isInteger(type, 1) THEN TRUE
  ELSE IF type.kind = "vector" THEN isInteger(getElementType(type), 1)
  ELSE FALSE

\* the rewriter as a pattern invocation starts: nothing created, no edit.
\* log holds the rewriter calls in the order they were made: for an operation
\* built, the variable of the source its result is bound to and the values
\* passed as its operands and attributes, under the names the source gives them.
\* the type of an elements attribute; none for a scalar
ShapedType(kind, shape, elemType) == [kind |-> kind, shape |-> shape, elemType |-> elemType]

NoAttrType == ShapedType("-", <<>>, NullType)

NewRewriter ==
  [created |-> <<>>, edit |-> "none", with |-> "-", newType |-> NullType,
   newAttr |-> <<>>, newAttrType |-> NoAttrType, erased |-> {}, convNull |-> FALSE,
   readNull |-> FALSE, log |-> <<>>]

Call(call, opc, result, args) == [call |-> call, opc |-> opc, result |-> result, args |-> args]

\* rewriter.create<opc>(loc, ..., args), its result bound to `result`
createAs(rw, opc, result, args) ==
  [rw EXCEPT !.created = Append(@, opc),
             !.log = Append(@, Call("create", opc, result, args))]

create(rw, opc) == createAs(rw, opc, "-", <<>>)

\* rewriter.replaceOpWithNewOp<opc>(op, ..., args)
replaceOpWithNewOpOn(rw, opc, type, args) ==
  [rw EXCEPT !.created = Append(@, opc), !.edit = "replaceOpWithNewOp",
             !.with = opc, !.newType = type,
             !.log = Append(@, Call("replaceOpWithNewOp", opc, "-", args))]

replaceOpWithNewOp(rw, opc, type) == replaceOpWithNewOpOn(rw, opc, type, <<>>)

replaceOp(rw, value) ==
  [rw EXCEPT !.edit = "replaceOp", !.with = value,
             !.log = Append(@, Call("replaceOp", "-", "-", <<value>>))]

eraseOp(rw, what) ==
  [rw EXCEPT !.erased = @ \cup {what},
             !.edit = IF what = "op" /\ @ = "none" THEN "eraseOp" ELSE @,
             !.log = Append(@, Call("eraseOp", "-", "-", <<what>>))]

\* typeConverter.convertType answered with no type
convertTypeFailed(rw) == [rw EXCEPT !.convNull = TRUE]

\* what a pattern invocation did and returned
Outcome(p, rw, status) ==
  [pattern |-> p, status |-> status, created |-> rw.created, edit |-> rw.edit,
   with |-> rw.with, newType |-> rw.newType, newAttr |-> rw.newAttr,
   newAttrType |-> rw.newAttrType,
   erased |-> rw.erased, convNull |-> rw.convNull, readNull |-> rw.readNull,
   log |-> rw.log]

NoOutcome == Outcome("-", NewRewriter, "none")

(***************************************************************************)
(* Opcode tables of the template patterns (populateStandardToSPIRVPatterns) *)
(***************************************************************************)
UnaryAndBinaryOps ==
  [AbsFOp |-> "spv.GLSL.FAbs", AddFOp |-> "spv.FAdd", AddIOp |-> "spv.IAdd",
   CeilFOp |-> "spv.GLSL.Ceil", CosOp |-> "spv.GLSL.Cos", DivFOp |-> "spv.FDiv",
   ExpOp |-> "spv.GLSL.Exp", LogOp |-> "spv.GLSL.Log", MulFOp |-> "spv.FMul",
   MulIOp |-> "spv.IMul", NegFOp |-> "spv.FNegate", RemFOp |-> "spv.FRem",
   RsqrtOp |-> "spv.GLSL.InverseSqrt", ShiftLeftOp |-> "spv.ShiftLeftLogical",
   SignedDivIOp |-> "spv.SDiv", SignedRemIOp |-> "spv.SRem",
   SignedShiftRightOp |-> "spv.ShiftRightArithmetic", SinOp |-> "spv.GLSL.Sin",
   SqrtOp |-> "spv.GLSL.Sqrt", SubFOp |-> "spv.FSub", SubIOp |-> "spv.ISub",
   TanhOp |-> "spv.GLSL.Tanh", UnsignedDivIOp |-> "spv.UDiv",
   UnsignedRemIOp |-> "spv.UMod", UnsignedShiftRightOp |-> "spv.ShiftRightLogical"]

BitwiseOps ==
  [AndOp |-> [logical |-> "spv.LogicalAnd", bitwise |-> "spv.BitwiseAnd"],
   OrOp |-> [logical |-> "spv.LogicalOr", bitwise |-> "spv.BitwiseOr"]]

TypeCastingOps ==
  [IndexCastOp |-> "spv.SConvert", SIToFPOp |-> "spv.ConvertSToF",
   ZeroExtendIOp |-> "spv.UConvert", TruncateIOp |-> "spv.SConvert",
   FPToSIOp |-> "spv.ConvertFToS", FPExtOp |-> "spv.FConvert",
   FPTruncOp |-> "spv.FConvert"]

(***************************************************************************)
(* The patterns.  o is the operation with what the pattern reads of it and *)
(* of its converted operands; o.dstType is what typeConverter.convertType  *)
(* answers for the type the pattern converts (NullType: no type).          *)
(***************************************************************************)
UnaryAndBinaryOpPattern(o) ==
  LET dstType == o.dstType
  IN IF dstType = NullType
       THEN Outcome("UnaryAndBinaryOpPattern", convertTypeFailed(NewRewriter), "failure")
       ELSE Outcome("UnaryAndBinaryOpPattern",
                    replaceOpWithNewOp(NewRewriter, UnaryAndBinaryOps[o.name], dstType),
                    "success")

BitwiseOpPattern(o) ==
  LET dstType == o.dstType
  IN IF dstType = NullType
       THEN Outcome("BitwiseOpPattern", convertTypeFailed(NewRewriter), "failure")
       ELSE IF isBoolScalarOrVector(o.operandType)
         THEN Outcome("BitwiseOpPattern",
                      replaceOpWithNewOp(NewRewriter, BitwiseOps[o.name].logical, dstType),
                      "success")
         ELSE Outcome("BitwiseOpPattern",
                      replaceOpWithNewOp(NewRewriter, BitwiseOps[o.name].bitwise, dstType),
                      "success")

\* a cast emitted even when the types agree
TypeCastingOpPattern_AlwaysCast(o) ==
  Outcome("TypeCastingOpPattern",
          replaceOpWithNewOp(NewRewriter, TypeCastingOps[o.name], o.dstType), "success")

\* the operand forwarded whatever the types
TypeCastingOpPattern_AlwaysForward(o) ==
  Outcome("TypeCastingOpPattern", replaceOp(NewRewriter, "operand"), "success")

TypeCastingOpPattern(o) ==
  LET dstType == o.dstType
      rw == IF dstType = NullType THEN convertTypeFailed(NewRewriter) ELSE NewRewriter
  IN IF dstType = o.operandType
       THEN Outcome("TypeCastingOpPattern", replaceOp(rw, "operand"), "success")
       ELSE Outcome("TypeCastingOpPattern",
                    replaceOpWithNewOp(rw, TypeCastingOps[o.name], dstType), "success")

\* without the test for boolean operands
XOrOpPattern_NoBoolCheck(o) ==
  IF o.dstType = NullType
    THEN Outcome("XOrOpPattern", convertTypeFailed(NewRewriter), "failure")
    ELSE Outcome("XOrOpPattern", replaceOpWithNewOp(NewRewriter, "spv.BitwiseXor", o.dstType),
                 "success")

XOrOpPattern(o) ==
  IF isBoolScalarOrVector(o.operandType)
    THEN Outcome("XOrOpPattern", NewRewriter, "failure")
    ELSE LET dstType == o.dstType
         IN IF dstType = NullType
              THEN Outcome("XOrOpPattern", convertTypeFailed(NewRewriter), "failure")
              ELSE Outcome("XOrOpPattern",
                           replaceOpWithNewOp(NewRewriter, "spv.BitwiseXor", dstType),
                           "success")

ReturnOpPattern(o) ==
  IF o.numOperands # 0
    THEN Outcome("ReturnOpPattern", NewRewriter, "failure")
    ELSE Outcome("ReturnOpPattern", replaceOpWithNewOp(NewRewriter, "spv.Return", NullType),
                 "success")

SelectOpPattern(o) ==
  Outcome("SelectOpPattern", replaceOpWithNewOp(NewRewriter, "spv.Select", o.operandType),
          "success")

\* ULT sharing OLT's opcode
CmpFOps_ULTAsOLT ==
  [OEQ |-> "spv.FOrdEqual", OGT |-> "spv.FOrdGreaterThan",
   OGE |-> "spv.FOrdGreaterThanEqual", OLT |-> "spv.FOrdLessThan",
   OLE |-> "spv.FOrdLessThanEqual", ONE |-> "spv.FOrdNotEqual",
   UEQ |-> "spv.FUnordEqual", UGT |-> "spv.FUnordGreaterThan",
   UGE |-> "spv.FUnordGreaterThanEqual", ULT |-> "spv.FOrdLessThan",
   ULE |-> "spv.FUnordLessThanEqual", UNE |-> "spv.FUnordNotEqual"]

CmpFOps ==
  [OEQ |-> "spv.FOrdEqual", OGT |-> "spv.FOrdGreaterThan",
   OGE |-> "spv.FOrdGreaterThanEqual", OLT |-> "spv.FOrdLessThan",
   OLE |-> "spv.FOrdLessThanEqual", ONE |-> "spv.FOrdNotEqual",
   UEQ |-> "spv.FUnordEqual", UGT |-> "spv.FUnordGreaterThan",
   UGE |-> "spv.FUnordGreaterThanEqual", ULT |-> "spv.FUnordLessThan",
   ULE |-> "spv.FUnordLessThanEqual", UNE |-> "spv.FUnordNotEqual"]

CmpFOpPattern(o) ==
  IF o.pred \in DOMAIN CmpFOps
    THEN Outcome("CmpFOpPattern", replaceOpWithNewOpOn(NewRewriter, CmpFOps[o.pred], o.resultType,
                                      <<"lhs", "rhs">>),
                 "success")
    ELSE Outcome("CmpFOpPattern", NewRewriter, "failure")

BoolCmpIOps == [eq |-> "spv.LogicalEqual", ne |-> "spv.LogicalNotEqual"]

BoolCmpIOpPattern(o) ==
  LET operandType == o.operandType
  IN IF ~(operandType.kind = "integer") \/ operandType.width # 1
       THEN Outcome("BoolCmpIOpPattern", NewRewriter, "failure")
       ELSE IF o.pred \in DOMAIN BoolCmpIOps
         THEN Outcome("BoolCmpIOpPattern",
                      replaceOpWithNewOpOn(NewRewriter, BoolCmpIOps[o.pred], o.resultType,
                                           <<"lhs", "rhs">>),
                      "success")
         ELSE Outcome("BoolCmpIOpPattern", NewRewriter, "failure")

CmpIOps ==
  [eq |-> "spv.IEqual", ne |-> "spv.INotEqual", slt |-> "spv.SLessThan",
   sle |-> "spv.SLessThanEqual", sgt |-> "spv.SGreaterThan",
   sge |-> "spv.SGreaterThanEqual", ult |-> "spv.ULessThan",
   ule |-> "spv.ULessThanEqual", ugt |-> "spv.UGreaterThan",
   uge |-> "spv.UGreaterThanEqual"]

\* without the test for 1-bit operands
CmpIOpPattern_NoBoolCheck(o) ==
  IF o.pred \in DOMAIN CmpIOps
    THEN Outcome("CmpIOpPattern",
                 replaceOpWithNewOpOn(NewRewriter, CmpIOps[o.pred], o.resultType,
                                      <<"lhs", "rhs">>),
                 "success")
    ELSE Outcome("CmpIOpPattern", NewRewriter, "failure")

CmpIOpPattern(o) ==
  LET operandType == o.operandType
  IN IF operandType.kind = "integer" /\ operandType.width = 1
       THEN Outcome("CmpIOpPattern", NewRewriter, "failure")
       ELSE IF o.pred \in DOMAIN CmpIOps
         THEN Outcome("CmpIOpPattern",
                      replaceOpWithNewOpOn(NewRewriter, CmpIOps[o.pred], o.resultType,
                                           <<"lhs", "rhs">>),
                      "success")
         ELSE Outcome("CmpIOpPattern", NewRewriter, "failure")

(***************************************************************************)
(* Constants.  A floating-point number is [category, sign, exponent,       *)
(* significand]: a normal (or denormal) number is                          *)
(* +-2^exponent * (1 + the sum of 2^-i for i in significand); for a NaN     *)
(* the significand holds the payload's bit positions, counted from the     *)
(* most significant one.  A scalar attribute is [ekind, width, value, fp]: *)
(* ekind is "bool", "integer" or "float"; fp is the number of a float.     *)
(* An operation's value is [akind, elems, shape]: akind "dense" for a      *)
(* dense elements attribute, "opaque" for any other non-scalar attribute;  *)
(* elems are the elements as stored, in row-major order of the shape.      *)
(***************************************************************************)
APFloat(category, sign, exponent, significand) ==
  [category |-> category, sign |-> sign, exponent |-> exponent, significand |-> significand]

fcZero(sign) == APFloat("fcZero", sign, 0, {})

fcInfinity(sign) == APFloat("fcInfinity", sign, 0, {})

fcNaN(payload) == APFloat("fcNaN", FALSE, 0, payload)

fcNormal(sign, exponent, significand) == APFloat("fcNormal", sign, exponent, significand)

\* the IEEE format of a float type of the given width
fltSemantics(w) ==
  IF w = 16 THEN [precision |-> 11, minExponent |-> -14, maxExponent |-> 15]
  ELSE IF w = 32 THEN [precision |-> 24, minExponent |-> -126, maxExponent |-> 127]
  ELSE [precision |-> 53, minExponent |-> -1022, maxExponent |-> 1023]

\* the largest finite number of a format
getLargest(to, sign) == fcNormal(sign, to.maxExponent, 1..(to.precision - 1))

\* APFloat::convert(to, rmTowardZero, &losesInfo): the bits of x the format
\* has room for, the others dropped
convert(x, to) ==
  LET fits(i) == /\ i <= to.precision - 1
                 /\ x.exponent - i >= to.minExponent - (to.precision - 1)
      kept == {i \in x.significand : fits(i)}
      payload == {i \in x.significand : i <= to.precision - 1}
  IN IF x.category \in {"fcZero", "fcInfinity"}
       THEN [value |-> x, status |-> "opOK", losesInfo |-> FALSE]
     ELSE IF x.category = "fcNaN"
       THEN [value |-> fcNaN(payload), status |-> "opOK", losesInfo |-> payload # x.significand]
     ELSE IF x.exponent > to.maxExponent
       THEN [value |-> getLargest(to, x.sign), status |-> "opOverflow|opInexact",
             losesInfo |-> TRUE]
     ELSE IF ~fits(0)
       THEN [value |-> fcZero(x.sign), status |-> "opUnderflow|opInexact", losesInfo |-> TRUE]
     ELSE IF kept = x.significand
       THEN [value |-> x, status |-> "opOK", losesInfo |-> FALSE]
     ELSE [value |-> fcNormal(x.sign, x.exponent, kept),
           status |-> IF x.exponent < to.minExponent THEN "opUnderflow|opInexact"
                      ELSE "opInexact",
           losesInfo |-> TRUE]

ScalarAttr(k, w, v, x) == [ekind |-> k, width |-> w, value |-> v, fp |-> x]

BoolAttr(b) == ScalarAttr("bool", 1, IF b THEN 1 ELSE 0, fcZero(FALSE))

IntegerAttr(w, v) == ScalarAttr("integer", w, v, fcZero(FALSE))

FloatAttr(w, x) == ScalarAttr("float", w, 0, x)

NullScalarAttr == ScalarAttr("null", 0, 0, fcZero(FALSE))

convertBoolAttr(a) ==
  IF a.ekind = "bool" THEN a
  ELSE IF a.ekind = "integer" THEN BoolAttr(a.value # 0)
  ELSE NullScalarAttr

\* the converted number returned whatever the conversion reports
convertFloatAttr_Unchecked(a, dstType) ==
  IF ~(dstType.kind = "float" /\ dstType.width = 32) THEN NullScalarAttr
  ELSE FloatAttr(32, convert(a.fp, fltSemantics(32)).value)

convertFloatAttr(a, dstType) ==
  IF ~(dstType.kind = "float" /\ dstType.width = 32) THEN NullScalarAttr
  ELSE LET dstVal == convert(a.fp, fltSemantics(32))
       IN IF dstVal.status # "opOK" \/ dstVal.losesInfo THEN NullScalarAttr
          ELSE FloatAttr(32, dstVal.value)

\* convertIntegerAttr on a scalar attribute
convertIntegerElement(a, dstType) ==
  LET d == convertIntegerAttr(a, dstType.width)
  IN IF d.null THEN NullScalarAttr ELSE IntegerAttr(d.width, d.value)

replaceWithConstant(rw, type, elems) ==
  [replaceOpWithNewOp(rw, "spv.constant", type) EXCEPT !.newAttr = elems]

\* replaceOpWithNewOp<spirv::ConstantOp>(constOp, dstType, dstElementsAttr)
replaceWithElements(rw, type, attrType, elems) ==
  [replaceWithConstant(rw, type, elems) EXCEPT !.newAttrType = attrType]

\* DenseElementsAttr::reshape: the same stored elements under another shape
reshape(attr, shape) == [attr EXCEPT !.shape = shape]

\* DenseElementsAttr::getAttributeValues: the elements in stored order
getAttributeValues(attr) == attr.elems

\* an element that fails is left out and the rest converted
RECURSIVE convertElements_SkipFailed(_, _, _)
convertElements_SkipFailed(elems, dstElemType, isFloat) ==
  IF elems = <<>> THEN <<>>
  ELSE LET d == IF isFloat THEN convertFloatAttr(Head(elems), dstElemType)
                ELSE convertIntegerElement(Head(elems), dstElemType)
       IN (IF d = NullScalarAttr THEN <<>> ELSE <<d>>)
            \o convertElements_SkipFailed(Tail(elems), dstElemType, isFloat)

\* the elements converted one by one, up to the first that fails
RECURSIVE convertElements(_, _, _)
convertElements(elems, dstElemType, isFloat) ==
  IF elems = <<>> THEN <<>>
  ELSE LET d == IF isFloat THEN convertFloatAttr(Head(elems), dstElemType)
                ELSE convertIntegerElement(Head(elems), dstElemType)
       IN IF d = NullScalarAttr THEN <<d>>
          ELSE <<d>> \o convertElements(Tail(elems), dstElemType, isFloat)

ConstantCompositeOpPattern(o) ==
  LET P == "ConstantCompositeOpPattern"
      srcType == o.srcType
      dstType == o.dstType
      isDense == o.value.akind = "dense"
      srcElemType == getElementType(srcType)
      dstElemType == getElementType(dstType)
      \* a tensor of rank > 1 is reshaped to one dimension of getNumElements()
      linearize == srcType.rank > 1 /\ srcType.kind = "tensor"
      dstAttrType == IF linearize THEN ShapedType("tensor", <<srcType.n>>, srcElemType)
                     ELSE ShapedType(srcType.kind, o.value.shape, srcElemType)
      dstElementsAttr == IF linearize THEN reshape(o.value, dstAttrType.shape) ELSE o.value
      converted == convertElements(getAttributeValues(dstElementsAttr), dstElemType,
                                   srcElemType.kind = "float")
  IN IF ~(srcType.kind \in {"vector", "tensor"}) THEN Outcome(P, NewRewriter, "failure")
     ELSE IF dstType = NullType THEN Outcome(P, convertTypeFailed(NewRewriter), "failure")
     \* dstElementsAttr.getType() is read before dstElementsAttr is tested
     ELSE IF ~isDense /\ o.build = "assert"
       THEN Outcome(P, [NewRewriter EXCEPT !.readNull = TRUE], "crash")
     ELSE IF ~isDense
       THEN Outcome(P, [NewRewriter EXCEPT !.readNull = TRUE], "failure")
     ELSE IF srcType.rank > 1 /\ srcType.kind # "tensor" THEN Outcome(P, NewRewriter, "failure")
     ELSE IF srcElemType = dstElemType
       THEN Outcome(P, replaceWithElements(NewRewriter, dstType, dstAttrType,
                                           getAttributeValues(dstElementsAttr)),
                    "success")
     ELSE IF srcElemType.kind # "float" /\ isInteger(srcElemType, 1)
       THEN Outcome(P, NewRewriter, "failure")
     ELSE IF \E i \in DOMAIN converted : converted[i] = NullScalarAttr
       THEN Outcome(P, NewRewriter, "failure")
     ELSE Outcome(P, replaceWithElements(NewRewriter, dstType,
                                         [dstAttrType EXCEPT !.elemType = dstElemType],
                                         converted),
                  "success")

isIntOrIndexOrFloat(type) == type.kind \in {"integer", "index", "float"}

ConstantScalarOpPattern(o) ==
  LET P == "ConstantScalarOpPattern"
      srcType == o.srcType
      dstType == o.dstType
      valueAttr == o.value.elems[1]
  IN IF ~isIntOrIndexOrFloat(srcType) THEN Outcome(P, NewRewriter, "failure")
     ELSE IF dstType = NullType THEN Outcome(P, convertTypeFailed(NewRewriter), "failure")
     ELSE IF srcType.kind = "float"
       THEN LET dstAttr0 == IF srcType # dstType THEN convertFloatAttr(valueAttr, dstType)
                            ELSE valueAttr
            IN IF dstAttr0 = NullScalarAttr THEN Outcome(P, NewRewriter, "failure")
               ELSE Outcome(P, replaceWithConstant(NewRewriter, dstType, <<dstAttr0>>), "success")
     ELSE IF isInteger(srcType, 1)
       THEN LET dstAttr1 == convertBoolAttr(valueAttr)
            IN IF dstAttr1 = NullScalarAttr THEN Outcome(P, NewRewriter, "failure")
               ELSE Outcome(P, replaceWithConstant(NewRewriter, dstType, <<dstAttr1>>), "success")
     ELSE LET dstAttr2 == convertIntegerElement(valueAttr, dstType)
          IN IF dstAttr2 = NullScalarAttr THEN Outcome(P, NewRewriter, "failure")
             ELSE Outcome(P, replaceWithConstant(NewRewriter, dstType, <<dstAttr2>>), "success")

(***************************************************************************)
(* Loads and stores.  o.elemSignless and o.srcBits describe the memref     *)
(* element type, o.dstType is the element type of the converted storage    *)
(* array (NullType when the memref type does not convert), o.numIndices    *)
(* the number of indices of the access chain spirv::getElementPtr built,   *)
(* o.build whether assertions are compiled in.                             *)
(***************************************************************************)
\* spirv::getElementPtr: the access chain it returns
getElementPtrAs(rw, result) ==
  createAs(rw, "spv.AccessChain", result, <<"memref", "indices">>)

getElementPtr(rw) == getElementPtrAs(rw, "accessChainOp")

\* the operations getOffsetForBitwidth builds; its result is bound to `offset`
getOffsetForBitwidthOps(rw) ==
  LET rwA == createAs(rw, "spv.constant", "idx", <<"targetBits / sourceBits">>)
      rwB == createAs(rwA, "spv.constant", "srcBitsValue", <<"sourceBits">>)
      rwC == createAs(rwB, "spv.SMod", "m", <<"lastDim", "idx">>)
  IN createAs(rwC, "spv.IMul", "offset", <<"m", "srcBitsValue">>)

\* the operations adjustAccessChainForBitwidth builds; its result is bound to
\* `adjustedPtr`
adjustAccessChainForBitwidthOps(rw) ==
  LET rwA == createAs(rw, "spv.constant", "idx", <<"targetBits / sourceBits">>)
      rwB == createAs(rwA, "spv.SDiv", "indices.back", <<"lastDim", "idx">>)
  IN createAs(rwB, "spv.AccessChain", "adjustedPtr", <<"base_ptr", "indices">>)

\* the operations shiftValue builds; its result is bound to `storeVal`
shiftValueOps(rw) ==
  LET rwA == createAs(rw, "spv.BitwiseAnd", "result", <<"value", "mask">>)
  IN createAs(rwA, "spv.ShiftLeftLogical", "storeVal", <<"result", "offset">>)

\* without the equal-width path
IntLoadOpPattern_NoFastPath(o) ==
  LET P == "IntLoadOpPattern"
      rw1 == getElementPtr(NewRewriter)
      rw2 == adjustAccessChainForBitwidthOps(rw1)
      rw3 == createAs(rw2, "spv.Load", "spvLoadOp", <<"adjustedPtr">>)
      rw4 == getOffsetForBitwidthOps(rw3)
      rw5 == createAs(rw4, "spv.ShiftRightArithmetic", "result", <<"spvLoadOp", "offset">>)
      rw6 == createAs(createAs(rw5, "spv.constant", "mask", <<"(1 << srcBits) - 1">>),
                      "spv.BitwiseAnd", "result", <<"result", "mask">>)
      rw8 == eraseOp(replaceOp(rw6, "result"), "accessChainOp")
  IN IF ~o.elemSignless THEN Outcome(P, NewRewriter, "failure")
     ELSE IF o.dstType = NullType THEN Outcome(P, convertTypeFailed(rw1), "crash")
     ELSE IF o.numIndices # 2 /\ o.build = "assert" THEN Outcome(P, rw1, "crash")
     ELSE Outcome(P, rw8, "success")

IntLoadOpPattern(o) ==
  LET P == "IntLoadOpPattern"
      rw1 == getElementPtr(NewRewriter)
      srcBitsL == o.srcBits
      dstBitsL == o.dstType.width
      rw2 == adjustAccessChainForBitwidthOps(rw1)
      rw3 == createAs(rw2, "spv.Load", "spvLoadOp", <<"adjustedPtr">>)
      rw4 == getOffsetForBitwidthOps(rw3)
      rw5 == createAs(rw4, "spv.ShiftRightArithmetic", "result", <<"spvLoadOp", "offset">>)
      rw6 == createAs(createAs(rw5, "spv.constant", "mask", <<"(1 << srcBits) - 1">>),
                      "spv.BitwiseAnd", "result", <<"result", "mask">>)
      rw7 == replaceOp(rw6, "result")
      rw8 == eraseOp(rw7, "accessChainOp")
  IN IF ~o.elemSignless THEN Outcome(P, NewRewriter, "failure")
     \* cast<spirv::PointerType>() of no type
     ELSE IF o.dstType = NullType THEN Outcome(P, convertTypeFailed(rw1), "crash")
     ELSE IF srcBitsL = dstBitsL
       THEN Outcome(P, replaceOpWithNewOpOn(rw1, "spv.Load", o.dstType, <<"accessChainOp">>),
                    "success")
     \* assert(accessChainOp.indices().size() == 2)
     ELSE IF o.numIndices # 2 /\ o.build = "assert" THEN Outcome(P, rw1, "crash")
     ELSE Outcome(P, rw8, "success")

\* the access chain built before the element type is tested
LoadOpPattern_ChainFirst(o) ==
  LET rw == getElementPtr(NewRewriter)
  IN IF o.elemSignless THEN Outcome("LoadOpPattern", rw, "failure")
     ELSE Outcome("LoadOpPattern", replaceOpWithNewOp(rw, "spv.Load", o.dstType), "success")

LoadOpPattern(o) ==
  LET P == "LoadOpPattern"
  IN IF o.elemSignless THEN Outcome(P, NewRewriter, "failure")
     ELSE Outcome(P, replaceOpWithNewOpOn(getElementPtrAs(NewRewriter, "loadPtr"), "spv.Load",
                                          o.dstType, <<"loadPtr">>),
                  "success")

\* the insert emitted before the clear
IntStoreOpPattern_OrFirst(o) ==
  LET P == "IntStoreOpPattern"
      rw1 == getElementPtr(NewRewriter)
      rw2 == getOffsetForBitwidthOps(rw1)
      rw3 == createAs(createAs(createAs(rw2, "spv.constant", "mask", <<"(1 << srcBits) - 1">>),
                               "spv.ShiftLeftLogical", "clearBitsMask", <<"mask", "offset">>),
                      "spv.Not", "clearBitsMask", <<"clearBitsMask">>)
      rw5 == adjustAccessChainForBitwidthOps(shiftValueOps(rw3))
      rw6 == createAs(createAs(rw5, "spv.AtomicOr", "result",
                               <<"adjustedPtr", "Device", "AcquireRelease", "storeVal">>),
                      "spv.AtomicAnd", "result",
                      <<"adjustedPtr", "Device", "AcquireRelease", "clearBitsMask">>)
      rw8 == eraseOp(eraseOp(rw6, "op"), "accessChainOp")
  IN IF ~o.elemSignless THEN Outcome(P, NewRewriter, "failure")
     ELSE IF o.dstType = NullType THEN Outcome(P, convertTypeFailed(rw1), "crash")
     ELSE IF o.srcBits = o.dstType.width
       THEN Outcome(P, replaceOpWithNewOpOn(rw1, "spv.Store", NullType,
                                            <<"accessChainOp", "value">>),
                    "success")
     ELSE IF o.numIndices # 2 /\ o.build = "assert" THEN Outcome(P, rw1, "crash")
     ELSE Outcome(P, rw8, "success")

IntStoreOpPattern(o) ==
  LET P == "IntStoreOpPattern"
      rw1 == getElementPtr(NewRewriter)
      srcBitsS == o.srcBits
      dstBitsS == o.dstType.width
      rw2 == getOffsetForBitwidthOps(rw1)
      rw3 == createAs(createAs(createAs(rw2, "spv.constant", "mask", <<"(1 << srcBits) - 1">>),
                               "spv.ShiftLeftLogical", "clearBitsMask", <<"mask", "offset">>),
                      "spv.Not", "clearBitsMask", <<"clearBitsMask">>)
      rw4 == shiftValueOps(rw3)
      rw5 == adjustAccessChainForBitwidthOps(rw4)
      rw6 == createAs(createAs(rw5, "spv.AtomicAnd", "result",
                               <<"adjustedPtr", "Device", "AcquireRelease", "clearBitsMask">>),
                      "spv.AtomicOr", "result",
                      <<"adjustedPtr", "Device", "AcquireRelease", "storeVal">>)
      rw7 == eraseOp(rw6, "op")
      rw8 == eraseOp(rw7, "accessChainOp")
  IN IF ~o.elemSignless THEN Outcome(P, NewRewriter, "failure")
     \* cast<spirv::PointerType>() of no type
     ELSE IF o.dstType = NullType THEN Outcome(P, convertTypeFailed(rw1), "crash")
     ELSE IF srcBitsS = dstBitsS
       THEN Outcome(P, replaceOpWithNewOpOn(rw1, "spv.Store", NullType,
                                            <<"accessChainOp", "value">>),
                    "success")
     \* assert(accessChainOp.indices().size() == 2)
     ELSE IF o.numIndices # 2 /\ o.build = "assert" THEN Outcome(P, rw1, "crash")
     ELSE Outcome(P, rw8, "success")

\* without the test of the element type
StoreOpPattern_AnyElement(o) ==
  Outcome("StoreOpPattern",
          replaceOpWithNewOpOn(getElementPtrAs(NewRewriter, "storePtr"), "spv.Store",
                               NullType, <<"storePtr", "value">>),
          "success")

StoreOpPattern(o) ==
  LET P == "StoreOpPattern"
  IN IF o.elemSignless THEN Outcome(P, NewRewriter, "failure")
     ELSE Outcome(P, replaceOpWithNewOpOn(getElementPtrAs(NewRewriter, "storePtr"), "spv.Store",
                                          NullType, <<"storePtr", "value">>),
                  "success")

(***************************************************************************)
(* Registration and dispatch                                               *)
(***************************************************************************)
\* the patterns populateStandardToSPIRVPatterns registers for an operation
PatternsFor(name) ==
  IF name \in DOMAIN UnaryAndBinaryOps THEN {"UnaryAndBinaryOpPattern"}
  ELSE IF name \in DOMAIN BitwiseOps THEN {"BitwiseOpPattern"}
  ELSE IF name \in DOMAIN TypeCastingOps THEN {"TypeCastingOpPattern"}
  ELSE IF name = "CmpIOp" THEN {"BoolCmpIOpPattern", "CmpIOpPattern"}
  ELSE IF name = "ConstantOp" THEN {"ConstantCompositeOpPattern", "ConstantScalarOpPattern"}
  ELSE IF name = "CmpFOp" THEN {"CmpFOpPattern"}
  ELSE IF name = "LoadOp" THEN {"IntLoadOpPattern", "LoadOpPattern"}
  ELSE IF name = "StoreOp" THEN {"IntStoreOpPattern", "StoreOpPattern"}
  ELSE IF name = "ReturnOp" THEN {"ReturnOpPattern"}
  ELSE IF name = "SelectOp" THEN {"SelectOpPattern"}
  ELSE IF name = "XOrOp" THEN {"XOrOpPattern"}
  ELSE {}

\* the dispatcher invokes a registered pattern not yet tried on the operation,
\* as long as none has succeeded
Apply(p, outcome) ==
  /\ p \in PatternsFor(op.name)
  /\ p \notin tried
  /\ res.status \in {"none", "failure"}
  /\ res' = outcome
  /\ tried' = tried \cup {p}
  /\ UNCHANGED <<op, notPatVars>>

\* no pattern is left to try on the operation
Settled == res.status \in {"success", "crash"} \/ PatternsFor(op.name) \subseteq tried

ApplyUnaryAndBinaryOpPattern == Apply("UnaryAndBinaryOpPattern", UnaryAndBinaryOpPattern(op))

ApplyBitwiseOpPattern == Apply("BitwiseOpPattern", BitwiseOpPattern(op))

ApplyTypeCastingOpPattern == Apply("TypeCastingOpPattern", TypeCastingOpPattern(op))

ApplyXOrOpPattern == Apply("XOrOpPattern", XOrOpPattern(op))

ApplyReturnOpPattern == Apply("ReturnOpPattern", ReturnOpPattern(op))

ApplySelectOpPattern == Apply("SelectOpPattern", SelectOpPattern(op))

ApplyCmpFOpPattern == Apply("CmpFOpPattern", CmpFOpPattern(op))

ApplyBoolCmpIOpPattern == Apply("BoolCmpIOpPattern", BoolCmpIOpPattern(op))

ApplyCmpIOpPattern == Apply("CmpIOpPattern", CmpIOpPattern(op))

ApplyConstantCompositeOpPattern ==
  Apply("ConstantCompositeOpPattern", ConstantCompositeOpPattern(op))

ApplyConstantScalarOpPattern == Apply("ConstantScalarOpPattern", ConstantScalarOpPattern(op))

ApplyIntLoadOpPattern == Apply("IntLoadOpPattern", IntLoadOpPattern(op))

ApplyLoadOpPattern == Apply("LoadOpPattern", LoadOpPattern(op))

ApplyIntStoreOpPattern == Apply("IntStoreOpPattern", IntStoreOpPattern(op))

ApplyStoreOpPattern == Apply("StoreOpPattern", StoreOpPattern(op))

(***************************************************************************)
(* The operations given to the conversion                                  *)
(***************************************************************************)
NoValue == [akind |-> "none", elems |-> <<>>, shape |-> <<>>]

DefaultOp ==
  [name |-> "-", operandType |-> NullType, resultType |-> NullType, srcType |-> NullType,
   dstType |-> NullType, pred |-> "-", numOperands |-> 0, value |-> NoValue,
   elemSignless |-> FALSE, srcBits |-> 0, numIndices |-> 0, build |-> "assert"]

Builds == {"assert", "release"}

VecI1 == VectorType("integer", 1, 4, 1)

VecI32 == VectorType("integer", 32, 4, 1)

IntLikeTypes ==
  {IntegerType(1), VecI1, IntegerType(8), IntegerType(32), IntegerType(64), VecI32}

CastTypes == {IntegerType(32), IntegerType(64), FloatType(32), FloatType(64)}

ArithInputs ==
  {[DefaultOp EXCEPT !.name = n, !.numOperands = 2, !.operandType = t, !.resultType = t,
                     !.dstType = d] :
     n \in DOMAIN UnaryAndBinaryOps, t \in {IntegerType(32)},
     d \in {NullType, IntegerType(32), FloatType(32)}}

BitwiseInputs ==
  UNION {{[DefaultOp EXCEPT !.name = n, !.numOperands = 2, !.operandType = t,
                            !.resultType = t, !.dstType = d] :
            n \in {"AndOp", "OrOp", "XOrOp"}, d \in {NullType, t}} : t \in IntLikeTypes}

CastInputs ==
  {[DefaultOp EXCEPT !.name = n, !.numOperands = 1, !.operandType = t, !.resultType = d,
                     !.dstType = d] :
     n \in DOMAIN TypeCastingOps \cup {"SignExtendIOp"}, t \in CastTypes,
     d \in CastTypes \cup {NullType}}

CmpFPredicates ==
  {"AlwaysFalse", "OEQ", "OGT", "OGE", "OLT", "OLE", "ONE", "ORD",
   "UEQ", "UGT", "UGE", "ULT", "ULE", "UNE", "UNO", "AlwaysTrue"}

CmpIPredicates == {"eq", "ne", "slt", "sle", "sgt", "sge", "ult", "ule", "ugt", "uge"}

CmpInputs ==
  {[DefaultOp EXCEPT !.name = "CmpFOp", !.numOperands = 2, !.operandType = FloatType(32),
                     !.resultType = IntegerType(1), !.pred = p] : p \in CmpFPredicates}
  \cup
  {[DefaultOp EXCEPT !.name = "CmpIOp", !.numOperands = 2, !.operandType = t,
                     !.resultType = IF t.kind = "vector" THEN VecI1 ELSE IntegerType(1),
                     !.pred = p] :
     p \in CmpIPredicates, t \in IntLikeTypes \cup {IndexType}}

ControlInputs ==
  {[DefaultOp EXCEPT !.name = "ReturnOp", !.numOperands = k] : k \in 0..1}
  \cup
  {[DefaultOp EXCEPT !.name = "SelectOp", !.numOperands = 3, !.operandType = t,
                     !.resultType = t] : t \in {IntegerType(32), FloatType(32)}}

\* numbers of each float format: zeros, infinities, NaNs, and numbers with
\* their last bit at, above and below what single precision holds
FloatSamples(w) ==
  {fcZero(FALSE), fcZero(TRUE), fcInfinity(TRUE), fcNaN({1}), fcNormal(FALSE, 0, {}),
   fcNormal(TRUE, 1, {1, 10})}
  \cup (IF w = 16 THEN {fcNormal(FALSE, -24, {}), fcNormal(FALSE, 15, 1..10)}
        ELSE IF w = 32 THEN {fcNormal(FALSE, 0, {23}), fcNormal(TRUE, -149, {})}
        ELSE {fcNormal(FALSE, 0, {23}), fcNormal(FALSE, 0, {24}), fcNormal(TRUE, 0, {1, 52}),
              fcNormal(FALSE, 127, 1..23), fcNormal(FALSE, 127, 1..24),
              fcNormal(FALSE, 128, {}), fcNormal(FALSE, -149, {}), fcNormal(TRUE, -150, {}),
              fcNormal(FALSE, -140, {9}), fcNormal(FALSE, -140, {10}), fcNaN({1, 52})})

\* integer constants are given at small widths: 3 and 5 bits wide, converted to 4 bits
ScalarConstants ==
  {[t |-> IntegerType(1), v |-> BoolAttr(TRUE)], [t |-> IntegerType(1), v |-> BoolAttr(FALSE)],
   [t |-> IntegerType(1), v |-> IntegerAttr(1, 0)], [t |-> IntegerType(1), v |-> IntegerAttr(1, 1)]}
  \cup UNION {{[t |-> IntegerType(w), v |-> IntegerAttr(w, x)] : x \in 0..(Pow2(w) - 1)} :
                w \in {3, 5}}
  \cup UNION {{[t |-> FloatType(w), v |-> FloatAttr(w, x)] : x \in FloatSamples(w)} :
                w \in {16, 32, 64}}

ScalarDstTypes(t) ==
  {NullType} \cup
    (IF t.kind = "float" THEN {FloatType(16), FloatType(32), FloatType(64)}
     ELSE IF t.width = 1 THEN {t} ELSE {IntegerType(4)})

ScalarConstantInputs ==
  UNION {{[DefaultOp EXCEPT !.name = "ConstantOp", !.resultType = c.t, !.srcType = c.t,
                            !.dstType = d, !.value = [akind |-> c.v.ekind, elems |-> <<c.v>>,
                                       shape |-> <<>>]] :
            d \in ScalarDstTypes(c.t)} : c \in ScalarConstants}

ElementSamples ==
  {IntegerAttr(5, 1), IntegerAttr(5, 20), IntegerAttr(5, 30), IntegerAttr(3, 6),
   IntegerAttr(1, 1), FloatAttr(64, fcNormal(FALSE, 0, {1})),
   FloatAttr(64, fcNormal(FALSE, 0, {1, 30}))}

ElementLists ==
  {<<e>> : e \in ElementSamples}
  \cup {p \in ElementSamples \X ElementSamples : p[1].width = p[2].width}
  \cup {<<IntegerAttr(5, 1), IntegerAttr(5, 2), IntegerAttr(5, 3), IntegerAttr(5, 4)>>,
        <<IntegerAttr(5, 1), IntegerAttr(5, 2), IntegerAttr(5, 20), IntegerAttr(5, 4)>>,
        <<FloatAttr(64, fcNormal(FALSE, 0, {})), FloatAttr(64, fcNormal(FALSE, 1, {})),
          FloatAttr(64, fcNormal(FALSE, 1, {1})), FloatAttr(64, fcNormal(FALSE, 2, {})),
          FloatAttr(64, fcNormal(FALSE, 2, {2})), FloatAttr(64, fcNormal(FALSE, 2, {1}))>>}

\* the product of the dimensions
RECURSIVE getNumElements(_)
getNumElements(shape) ==
  IF shape = <<>> THEN 1 ELSE Head(shape) * getNumElements(Tail(shape))

\* the shapes of rank r with n elements
Shapes(n, r) == {s \in [1..r -> 1..n] : getNumElements(s) = n}

ShapedOf(k, es, r) == Ty(k, es[1].ekind, es[1].width, Len(es), r)

CompositeDstTypes(st) ==
  {NullType, ArrayType(st.elemKind, st.width, st.n), VectorType(st.elemKind, st.width, st.n, 1)}
  \cup (IF st.elemKind = "float" THEN {ArrayType("float", 32, st.n), ArrayType("float", 16, st.n)}
        ELSE {ArrayType("integer", 4, st.n), VectorType("integer", 4, st.n, 1)})

CompositeSrcTypes(es) ==
  {ShapedOf(k, es, 1) : k \in {"vector", "tensor"}}
  \cup (IF Len(es) > 1 THEN {ShapedOf(k, es, 2) : k \in {"vector", "tensor"}} ELSE {})

CompositeConstantInputs ==
  UNION {UNION {{[DefaultOp EXCEPT !.name = "ConstantOp", !.resultType = st, !.srcType = st,
                                   !.dstType = d, !.value = v, !.build = b] :
                   d \in CompositeDstTypes(st),
                   v \in {[akind |-> "dense", elems |-> es, shape |-> s] :
                            s \in Shapes(st.n, st.rank)}
                           \cup {[akind |-> "opaque", elems |-> <<>>, shape |-> <<>>]},
                   b \in Builds} : st \in CompositeSrcTypes(es)} : es \in ElementLists}

MemoryInputs ==
  {[DefaultOp EXCEPT !.name = n, !.elemSignless = TRUE, !.srcBits = sb, !.dstType = d,
                     !.numIndices = k, !.build = b] :
     n \in {"LoadOp", "StoreOp"}, sb \in SourceWidths,
     d \in {NullType, IntegerType(TargetBits)}, k \in 1..3, b \in Builds}
  \cup
  UNION {{[DefaultOp EXCEPT !.name = n, !.elemSignless = FALSE, !.srcBits = sb, !.dstType = d,
                            !.numIndices = k, !.build = b] :
            n \in {"LoadOp", "StoreOp"},
            d \in {NullType, FloatType(32), FloatType(sb)}, k \in 1..3, b \in Builds} :
           sb \in {16, 32, 64}}

InputOps ==
  ArithInputs \cup BitwiseInputs \cup CastInputs \cup CmpInputs \cup ControlInputs
    \cup ScalarConstantInputs \cup CompositeConstantInputs \cup MemoryInputs

Init ==
  /\ MemIdle
  /\ AttrIdle
  /\ VkIdle
  /\ op \in InputOps
  /\ tried = {}
  /\ res = NoOutcome

Next ==
  \/ ApplyUnaryAndBinaryOpPattern
  \/ ApplyBitwiseOpPattern
  \/ ApplyTypeCastingOpPattern
  \/ ApplyXOrOpPattern
  \/ ApplyReturnOpPattern
  \/ ApplySelectOpPattern
  \/ ApplyCmpFOpPattern
  \/ ApplyBoolCmpIOpPattern
  \/ ApplyCmpIOpPattern
  \/ ApplyConstantCompositeOpPattern
  \/ ApplyConstantScalarOpPattern
  \/ ApplyIntLoadOpPattern
  \/ ApplyLoadOpPattern
  \/ ApplyIntStoreOpPattern
  \/ ApplyStoreOpPattern

Spec == Init /\ [][Next]_vars

(***************************************************************************)
(* The Vulkan runtime (VulkanRuntime.cpp).  A resource is a pair           *)
(* <<descriptor set, binding>>; a buffer is the sequence of its bytes.     *)
(* vkCalls records every device call and host-side check in the order      *)
(* made, with its result.                                                  *)
(***************************************************************************)
MaxBufferSize == 2

DescriptorSets == 0..1

Bindings == 0..1

Bytes == 0..3

StorageClasses == {"StorageBuffer", "Uniform"}

\* a Vulkan entry point the runtime calls; fallible when it returns a VkResult
DeviceCall(api, fallible) ==
  [api |-> api, kind |-> "device", fallible |-> fallible, passes |-> TRUE]

\* a condition the runtime tests on the host
HostCheck(what, fallible, passes) ==
  [api |-> what, kind |-> "host", fallible |-> fallible, passes |-> passes]

\* the result never tested
RETURN_ON_VULKAN_ERROR_Ignored(result) == FALSE

\* whether the enclosing function returns failure() here
RETURN_ON_VULKAN_ERROR(result) == result # "VK_SUCCESS"

\* the calls of `program` from entry i on, in order, until one makes the
\* function return; entry k, when fallible, is the one the device fails
RECURSIVE Exec(_, _, _, _)
Exec(program, i, k, log) ==
  IF i > Len(program) THEN [log |-> log, ok |-> TRUE]
  ELSE LET c == program[i]
           result == IF (c.fallible /\ i = k) \/ ~c.passes THEN "VK_ERROR" ELSE "VK_SUCCESS"
           entry == [api |-> c.api, kind |-> c.kind, result |-> result]
       IN IF RETURN_ON_VULKAN_ERROR(result)
            THEN [log |-> Append(log, entry), ok |-> FALSE]
            ELSE Exec(program, i + 1, k, Append(log, entry))

\* no failure (0) or the entry that fails
FailPoints(program) == {0} \cup {i \in 1..Len(program) : program[i].fallible}

RECURSIVE Concat(_)
Concat(seqs) == IF seqs = <<>> THEN <<>> ELSE Head(seqs) \o Concat(Tail(seqs))

\* the sets of a resource table, and the bindings it has in a set
SetsOf(table) == {p[1] : p \in DOMAIN table}

\* iteration orders of a map with the given keys
Orders(keys) ==
  {f \in [1..Cardinality(keys) -> keys] : \A i, j \in DOMAIN f : f[i] = f[j] => i = j}

\* the orders in which the two nested loops over resourceData can visit the
\* resources: set by set
ResourceOrders(table) ==
  {f \in Orders(DOMAIN table) :
     \A i, j, k \in DOMAIN f : (i < j /\ j < k /\ f[i][1] = f[k][1]) => f[j][1] = f[i][1]}

mapStorageClassToDescriptorType(storageClass) ==
  IF storageClass = "StorageBuffer" THEN "VK_DESCRIPTOR_TYPE_STORAGE_BUFFER"
  ELSE "VK_DESCRIPTOR_TYPE_UNIFORM_BUFFER"

mapStorageClassToBufferUsageFlag(storageClass) ==
  IF storageClass = "StorageBuffer" THEN "VK_BUFFER_USAGE_STORAGE_BUFFER_BIT"
  ELSE "VK_BUFFER_USAGE_UNIFORM_BUFFER_BIT"

\* one step of run: the program runs, run goes on to `next` (returns success
\* when nothing is next) or returns failure
Step(pc, program, next, k) ==
  LET r == Exec(program, 1, k, <<>>)
  IN /\ runPc = pc
     /\ k \in FailPoints(program)
     /\ vkCalls' = vkCalls \o r.log
     /\ runPc' = IF r.ok THEN next ELSE "returned"
     /\ runStatus' = IF ~r.ok THEN "failure"
                     ELSE IF next = "returned" THEN "success" ELSE runStatus

createInstance ==
  /\ \E k \in 0..1 :
       Step("createInstance", <<DeviceCall("vkCreateInstance", TRUE)>>, "createDevice", k)
  /\ UNCHANGED <<resourceData, resourceStorageClassData, hostMemory, deviceMemoryBufferMap,
                 deviceMemory, timestampValidBits, queryPool, updateStatus, notVkVars>>

createDeviceCalls ==
  <<DeviceCall("vkEnumeratePhysicalDevices", TRUE),
    DeviceCall("vkEnumeratePhysicalDevices", TRUE),
    HostCheck("physicalDeviceCount", TRUE, TRUE),
    DeviceCall("vkGetPhysicalDeviceQueueFamilyProperties", FALSE),
    DeviceCall("vkGetPhysicalDeviceQueueFamilyProperties", FALSE),
    HostCheck("getBestComputeQueue", TRUE, TRUE),
    DeviceCall("vkCreateDevice", TRUE),
    DeviceCall("vkGetPhysicalDeviceMemoryProperties", FALSE),
    HostCheck("memoryTypeIndex", TRUE, TRUE)>>

createDevice ==
  /\ \E k \in 0..Len(createDeviceCalls) :
       Step("createDevice", createDeviceCalls, "createMemoryBuffers", k)
  /\ UNCHANGED <<resourceData, resourceStorageClassData, hostMemory, deviceMemoryBufferMap,
                 deviceMemory, timestampValidBits, queryPool, updateStatus, notVkVars>>

\* createMemoryBuffers: what it does for the resource p
memoryBufferCalls(p) ==
  <<HostCheck("storage class of the descriptor set", FALSE,
              p[1] \in SetsOf(resourceStorageClassData)),
    HostCheck("storage class of the binding", FALSE, p \in DOMAIN resourceStorageClassData),
    DeviceCall("vkAllocateMemory", TRUE),
    DeviceCall("vkMapMemory", TRUE),
    DeviceCall("vkUnmapMemory", FALSE),
    DeviceCall("vkCreateBuffer", TRUE),
    DeviceCall("vkBindBufferMemory", TRUE)>>

\* the position of vkMapMemory among them, after which the host bytes are copied
MapMemoryAt == 4

createMemoryBuffersCalls(order) ==
  Concat([j \in DOMAIN order |-> memoryBufferCalls(order[j])])

\* the entries of the j-th resource start after this many
SegmentBase(order, j) == Len(createMemoryBuffersCalls(SubSeq(order, 1, j - 1)))

\* the j-th resource got as far as copying the host bytes into mapped memory
Copied(order, j, log) ==
  /\ Len(log) >= SegmentBase(order, j) + MapMemoryAt
  /\ log[SegmentBase(order, j) + MapMemoryAt].result = "VK_SUCCESS"

\* the j-th resource's buffer was pushed onto the set's vector: the function
\* did not return while handling it
Pushed(order, j, log, ok) ==
  \/ Len(log) > SegmentBase(order, j + 1)
  \/ (Len(log) = SegmentBase(order, j + 1) /\ ok)

\* the loop over the set's bindings finished: deviceMemoryBufferMap[s] is assigned
Assigned(order, s, log, ok) ==
  /\ \E j \in DOMAIN order : order[j][1] = s
  /\ \A j \in DOMAIN order : order[j][1] = s => Pushed(order, j, log, ok)

\* the VulkanDeviceMemoryBuffer built for the j-th resource; handles are
\* numbered in allocation order
memoryBuffer(order, j, base) ==
  [bindingIndex |-> order[j][2],
   descriptorType |->
     IF order[j] \in DOMAIN resourceStorageClassData
       THEN mapStorageClassToDescriptorType(resourceStorageClassData[order[j]])
       ELSE "-",
   bufferUsage |->
     IF order[j] \in DOMAIN resourceStorageClassData
       THEN mapStorageClassToBufferUsageFlag(resourceStorageClassData[order[j]])
       ELSE "-",
   deviceMemory |-> base + j]

RECURSIVE deviceMemoryBuffers(_, _, _, _)
deviceMemoryBuffers(order, s, j, base) ==
  IF j > Len(order) THEN <<>>
  ELSE (IF order[j][1] = s THEN <<memoryBuffer(order, j, base)>> ELSE <<>>)
         \o deviceMemoryBuffers(order, s, j + 1, base)

createMemoryBuffers ==
  /\ \E order \in ResourceOrders(resourceData) :
       \E k \in 0..Len(createMemoryBuffersCalls(order)) :
         LET program == createMemoryBuffersCalls(order)
             r == Exec(program, 1, k, <<>>)
             base == Len(deviceMemory)
             reached == {j \in DOMAIN order : Copied(order, j, r.log)}
             assigned == {s \in SetsOf(resourceData) : Assigned(order, s, r.log, r.ok)}
         IN /\ Step("createMemoryBuffers", program, "createShaderModule", k)
            /\ deviceMemory' =
                 deviceMemory \o
                   [j \in 1..Cardinality(reached) |->
                      [bytes |-> SubSeq(hostMemory[order[j]], 1, resourceData[order[j]].size),
                       origin |-> order[j]]]
            /\ deviceMemoryBufferMap' =
                 [s \in DOMAIN deviceMemoryBufferMap \cup assigned |->
                    IF s \in assigned THEN deviceMemoryBuffers(order, s, 1, base)
                    ELSE deviceMemoryBufferMap[s]]
  /\ UNCHANGED <<resourceData, resourceStorageClassData, hostMemory, timestampValidBits,
                 queryPool, updateStatus, notVkVars>>

createShaderModule ==
  /\ \E k \in 0..1 :
       Step("createShaderModule", <<DeviceCall("vkCreateShaderModule", TRUE)>>,
            "createDescriptorSetLayout", k)
  /\ UNCHANGED <<resourceData, resourceStorageClassData, hostMemory, deviceMemoryBufferMap,
                 deviceMemory, timestampValidBits, queryPool, updateStatus, notVkVars>>

\* one descriptor set layout for each set of deviceMemoryBufferMap
createDescriptorSetLayoutCalls ==
  Concat([i \in 1..Cardinality(DOMAIN deviceMemoryBufferMap) |->
            <<HostCheck("layout bindings of the set", FALSE, TRUE),
              DeviceCall("vkCreateDescriptorSetLayout", TRUE)>>])

createDescriptorSetLayout ==
  /\ \E k \in 0..Len(createDescriptorSetLayoutCalls) :
       Step("createDescriptorSetLayout", createDescriptorSetLayoutCalls,
            "createPipelineLayout", k)
  /\ UNCHANGED <<resourceData, resourceStorageClassData, hostMemory, deviceMemoryBufferMap,
                 deviceMemory, timestampValidBits, queryPool, updateStatus, notVkVars>>

createPipelineLayout ==
  /\ \E k \in 0..1 :
       Step("createPipelineLayout", <<DeviceCall("vkCreatePipelineLayout", TRUE)>>,
            "createComputePipeline", k)
  /\ UNCHANGED <<resourceData, resourceStorageClassData, hostMemory, deviceMemoryBufferMap,
                 deviceMemory, timestampValidBits, queryPool, updateStatus, notVkVars>>

createComputePipeline ==
  /\ \E k \in 0..1 :
       Step("createComputePipeline", <<DeviceCall("vkCreateComputePipelines", TRUE)>>,
            "createDescriptorPool", k)
  /\ UNCHANGED <<resourceData, resourceStorageClassData, hostMemory, deviceMemoryBufferMap,
                 deviceMemory, timestampValidBits, queryPool, updateStatus, notVkVars>>

createDescriptorPool ==
  /\ \E k \in 0..1 :
       Step("createDescriptorPool", <<DeviceCall("vkCreateDescriptorPool", TRUE)>>,
            "allocateDescriptorSets", k)
  /\ UNCHANGED <<resourceData, resourceStorageClassData, hostMemory, deviceMemoryBufferMap,
                 deviceMemory, timestampValidBits, queryPool, updateStatus, notVkVars>>

allocateDescriptorSets ==
  /\ \E k \in 0..1 :
       Step("allocateDescriptorSets", <<DeviceCall("vkAllocateDescriptorSets", TRUE)>>,
            "setWriteDescriptors", k)
  /\ UNCHANGED <<resourceData, resourceStorageClassData, hostMemory, deviceMemoryBufferMap,
                 deviceMemory, timestampValidBits, queryPool, updateStatus, notVkVars>>

\* one vkUpdateDescriptorSets for each buffer of each set
setWriteDescriptorsCalls ==
  <<HostCheck("descriptorSets.size() == descriptorSetInfoPool.size()", FALSE, TRUE)>>
    \o Concat([i \in 1..Cardinality(DescriptorSets) |->
                 IF (i - 1) \in DOMAIN deviceMemoryBufferMap
                   THEN [j \in DOMAIN deviceMemoryBufferMap[i - 1] |->
                           DeviceCall("vkUpdateDescriptorSets", FALSE)]
                   ELSE <<>>])

setWriteDescriptors ==
  /\ Step("setWriteDescriptors", setWriteDescriptorsCalls, "createCommandPool", 0)
  /\ UNCHANGED <<resourceData, resourceStorageClassData, hostMemory, deviceMemoryBufferMap,
                 deviceMemory, timestampValidBits, queryPool, updateStatus, notVkVars>>

createCommandPool ==
  /\ \E k \in 0..1 :
       Step("createCommandPool", <<DeviceCall("vkCreateCommandPool", TRUE)>>,
            "createQueryPool", k)
  /\ UNCHANGED <<resourceData, resourceStorageClassData, hostMemory, deviceMemoryBufferMap,
                 deviceMemory, timestampValidBits, queryPool, updateStatus, notVkVars>>

\* nothing is called when timestamp queries are not supported
createQueryPoolCalls ==
  IF timestampValidBits = 0 THEN <<>>
  ELSE <<DeviceCall("vkGetPhysicalDeviceProperties", FALSE),
         DeviceCall("vkCreateQueryPool", TRUE)>>

createQueryPool ==
  /\ \E k \in 0..Len(createQueryPoolCalls) :
       /\ Step("createQueryPool", createQueryPoolCalls, "createComputeCommandBuffer", k)
       /\ queryPool' =
            IF timestampValidBits # 0 /\ Exec(createQueryPoolCalls, 1, k, <<>>).ok
              THEN "created" ELSE queryPool
  /\ UNCHANGED <<resourceData, resourceStorageClassData, hostMemory, deviceMemoryBufferMap,
                 deviceMemory, timestampValidBits, updateStatus, notVkVars>>

\* the commands recorded when a query pool exists
WithQueryPool(calls) == IF queryPool # "VK_NULL_HANDLE" THEN calls ELSE <<>>

createComputeCommandBufferCalls ==
  <<DeviceCall("vkAllocateCommandBuffers", TRUE), DeviceCall("vkBeginCommandBuffer", TRUE)>>
    \o WithQueryPool(<<DeviceCall("vkCmdResetQueryPool", FALSE)>>)
    \o <<DeviceCall("vkCmdBindPipeline", FALSE), DeviceCall("vkCmdBindDescriptorSets", FALSE)>>
    \o WithQueryPool(<<DeviceCall("vkCmdWriteTimestamp", FALSE)>>)
    \o <<DeviceCall("vkCmdDispatch", FALSE)>>
    \o WithQueryPool(<<DeviceCall("vkCmdWriteTimestamp", FALSE)>>)
    \o <<DeviceCall("vkEndCommandBuffer", TRUE)>>

createComputeCommandBuffer ==
  /\ \E k \in 0..Len(createComputeCommandBufferCalls) :
       Step("createComputeCommandBuffer", createComputeCommandBufferCalls,
            "submitCommandBuffersToQueue", k)
  /\ UNCHANGED <<resourceData, resourceStorageClassData, hostMemory, deviceMemoryBufferMap,
                 deviceMemory, timestampValidBits, queryPool, updateStatus, notVkVars>>

submitCommandBuffersToQueue ==
  /\ \E k \in 0..2 :
       Step("submitCommandBuffersToQueue",
            <<DeviceCall("vkGetDeviceQueue", FALSE), DeviceCall("vkQueueSubmit", TRUE)>>,
            "vkQueueWaitIdle", k)
  /\ UNCHANGED <<resourceData, resourceStorageClassData, hostMemory, deviceMemoryBufferMap,
                 deviceMemory, timestampValidBits, queryPool, updateStatus, notVkVars>>

\* what the compute shader may have left in a device allocation
KernelWrites(h, bytes) == [i \in DOMAIN bytes |-> (bytes[i] + h + i) % Cardinality(Bytes)]

\* the wait for the queue, then the timestamps when a query pool exists; run
\* returns success after them.  The shader has run by then: it has written
\* any of the device allocations.
vkQueueWaitIdle ==
  /\ \E k \in 0..2 :
       LET program ==
             <<DeviceCall("vkQueueWaitIdle", TRUE)>>
               \o WithQueryPool(<<DeviceCall("vkGetQueryPoolResults", TRUE)>>)
       IN Step("vkQueueWaitIdle", program, "returned", k)
  /\ \E written \in SUBSET DOMAIN deviceMemory :
       deviceMemory' =
         [h \in DOMAIN deviceMemory |->
            IF h \in written
              THEN [deviceMemory[h] EXCEPT !.bytes = KernelWrites(h, @)]
              ELSE deviceMemory[h]]
  /\ UNCHANGED <<resourceData, resourceStorageClassData, hostMemory, deviceMemoryBufferMap,
                 timestampValidBits, queryPool, updateStatus, notVkVars>>

\* only the first binding of a set is copied back
hasHostMemoryBuffer_FirstOnly(s, buffer) ==
  <<s, buffer.bindingIndex>> \in DOMAIN resourceData /\ buffer.bindingIndex = 0

\* resourceDataMap.count(deviceMemoryBuffer.bindingIndex)
hasHostMemoryBuffer(s, buffer) == <<s, buffer.bindingIndex>> \in DOMAIN resourceData

\* the copies updateHostMemoryBuffers makes, in order, visiting the sets of
\* resourceData in setOrder: each from a device allocation to a host buffer
RECURSIVE updateTargets(_, _)
updateTargets(setOrder, i) ==
  IF i > Len(setOrder) THEN <<>>
  ELSE LET s == setOrder[i]
           buffers == deviceMemoryBufferMap[s]
           present == SelectSeq(buffers, LAMBDA b : hasHostMemoryBuffer(s, b))
       IN [j \in DOMAIN present |->
             [host |-> <<s, present[j].bindingIndex>>, deviceMemory |-> present[j].deviceMemory]]
            \o updateTargets(setOrder, i + 1)

updateHostMemoryBuffersCalls(targets) ==
  Concat([j \in DOMAIN targets |->
            <<DeviceCall("vkMapMemory", TRUE), DeviceCall("vkUnmapMemory", FALSE)>>])

\* std::memcpy(hostMemoryBuffer.ptr, payload, hostMemoryBuffer.size)
memcpy(dst, src, size) == [i \in DOMAIN dst |-> IF i <= size THEN src[i] ELSE dst[i]]

\* called once run has returned success, when every set of resourceData has
\* its vector in deviceMemoryBufferMap
updateHostMemoryBuffers ==
  /\ runStatus = "success"
  /\ updateStatus = "none"
  /\ \E setOrder \in Orders(SetsOf(resourceData)) :
       LET targets == updateTargets(setOrder, 1)
           program == updateHostMemoryBuffersCalls(targets)
       IN \E k \in FailPoints(program) :
            LET r == Exec(program, 1, k, <<>>)
                copied == {j \in DOMAIN targets :
                             /\ Len(r.log) >= 2 * j - 1
                             /\ r.log[2 * j - 1].result = "VK_SUCCESS"}
            IN /\ vkCalls' = vkCalls \o r.log
               /\ updateStatus' = IF r.ok THEN "success" ELSE "failure"
               /\ hostMemory' =
                    [p \in DOMAIN hostMemory |->
                       IF \E j \in copied : targets[j].host = p
                         THEN LET j == CHOOSE c \in copied : targets[c].host = p
                              IN memcpy(hostMemory[p], deviceMemory[targets[j].deviceMemory].bytes,
                                        resourceData[p].size)
                         ELSE hostMemory[p]]
  /\ UNCHANGED <<resourceData, resourceStorageClassData, deviceMemoryBufferMap, deviceMemory,
                 timestampValidBits, queryPool, runPc, runStatus, notVkVars>>

\* a call of destroy on the object `handle`; fallible when its result is tested
ReleaseCall(api, fallible, handle) ==
  [api |-> api, kind |-> "device", fallible |-> fallible, passes |-> TRUE, handle |-> handle]

\* only the memory of each buffer is freed
releaseMemoryBuffers_MemoryOnly(setOrder) ==
  Concat([i \in DOMAIN setOrder |->
            [j \in DOMAIN deviceMemoryBufferMap[setOrder[i]] |->
               ReleaseCall("vkFreeMemory", FALSE,
                           deviceMemoryBufferMap[setOrder[i]][j].deviceMemory)]])

\* the memory and the buffer of every buffer of every set, visiting the sets
\* of deviceMemoryBufferMap in setOrder
releaseMemoryBuffers(setOrder) ==
  Concat([i \in DOMAIN setOrder |->
            Concat([j \in DOMAIN deviceMemoryBufferMap[setOrder[i]] |->
                      LET memBuffer == deviceMemoryBufferMap[setOrder[i]][j]
                      IN <<ReleaseCall("vkFreeMemory", FALSE, memBuffer.deviceMemory),
                           ReleaseCall("vkDestroyBuffer", FALSE, memBuffer.deviceMemory)>>])])

\* the calls of destroy, in order; only the result of vkDeviceWaitIdle is
\* tested.  One descriptor set layout exists for each set of
\* deviceMemoryBufferMap.
destroyCallsOf(setOrder) ==
  <<ReleaseCall("vkDeviceWaitIdle", TRUE, 0),
    ReleaseCall("vkFreeCommandBuffers", FALSE, 0),
    ReleaseCall("vkDestroyQueryPool", FALSE, 0),
    ReleaseCall("vkDestroyCommandPool", FALSE, 0),
    ReleaseCall("vkFreeDescriptorSets", FALSE, 0),
    ReleaseCall("vkDestroyDescriptorPool", FALSE, 0),
    ReleaseCall("vkDestroyPipeline", FALSE, 0),
    ReleaseCall("vkDestroyPipelineLayout", FALSE, 0)>>
    \o [i \in DOMAIN setOrder |-> ReleaseCall("vkDestroyDescriptorSetLayout", FALSE, i)]
    \o <<ReleaseCall("vkDestroyShaderModule", FALSE, 0)>>
    \o releaseMemoryBuffers(setOrder)
    \o <<ReleaseCall("vkDestroyDevice", FALSE, 0), ReleaseCall("vkDestroyInstance", FALSE, 0)>>

\* the calls made, each with the object it was made on
WithHandles(program, log) ==
  [i \in DOMAIN log |->
     [api |-> log[i].api, result |-> log[i].result, handle |-> program[i].handle]]

\* destroy making the calls of `program`, of which the k-th fails (none when k = 0)
destroyStep(program, k) ==
  /\ k \in FailPoints(program)
  /\ destroyCalls' = WithHandles(program, Exec(program, 1, k, <<>>).log)
  /\ destroyStatus' = IF Exec(program, 1, k, <<>>).ok THEN "success" ELSE "failure"

\* called once run has returned success and the host buffers were read back
destroy ==
  /\ runStatus = "success"
  /\ updateStatus # "none"
  /\ destroyStatus = "none"
  /\ \E setOrder \in Orders(DOMAIN deviceMemoryBufferMap) :
       \E k \in 0..1 : destroyStep(destroyCallsOf(setOrder), k)
  /\ UNCHANGED <<vkVars, memVars, attrVars, patVars, setupVars>>

(***************************************************************************)
(* The setters and initRuntime, called before run                          *)
(***************************************************************************)
MaxInitCalls == 2

\* the sum of the sizes of the resources of a table
RECURSIVE TotalSize(_)
TotalSize(table) ==
  IF DOMAIN table = {} THEN 0
  ELSE LET p == CHOOSE q \in DOMAIN table : TRUE
       IN table[p].size + TotalSize([q \in DOMAIN table \ {p} |-> table[q]])

\* what the host buffer of resource p holds before the run
HostBytes(p, size) == [i \in 1..size |-> (2 * p[1] + p[2] + i) % Cardinality(Bytes)]

\* the resources the setters are called with
SetupResources == {<<s, 0>> : s \in DescriptorSets}

\* the sizes of the buffers the setters are called with
SetupSizes == {0, MaxBufferSize}

SetupTables == UNION {[D -> [size : SetupSizes]] : D \in SUBSET SetupResources}

SetupClassMaps == UNION {[D -> StorageClasses] : D \in SUBSET SetupResources}

\* run has not been called yet
NotStarted == runPc \in {"idle", "createInstance"} /\ vkCalls = <<>>

\* the host buffers of a resource table
HostBuffers(table) == [p \in DOMAIN table |-> HostBytes(p, table[p].size)]

setResourceStorageClassBindingMap(stClassDataArg) ==
  /\ NotStarted
  /\ resourceStorageClassData' = stClassDataArg
  /\ stClassData' = stClassDataArg
  /\ UNCHANGED <<resourceData, hostMemory, deviceMemoryBufferMap, deviceMemory,
                 timestampValidBits, queryPool, vkCalls, runPc, runStatus, updateStatus,
                 binary, binarySize, memorySize, initStatus, initCalls,
                 memVars, attrVars, patVars, destroyVars>>

\* the overload taking one resource: it also enters StorageBuffer for it
setResourceData(desIndex, bindIndex, hostMemBuffer) ==
  LET p == <<desIndex, bindIndex>>
  IN /\ NotStarted
     /\ resourceData' =
          [q \in DOMAIN resourceData \cup {p} |->
             IF q = p THEN hostMemBuffer ELSE resourceData[q]]
     /\ resourceStorageClassData' =
          [q \in DOMAIN resourceStorageClassData \cup {p} |->
             IF q = p THEN "StorageBuffer" ELSE resourceStorageClassData[q]]
     /\ hostMemory' = HostBuffers(resourceData')
     /\ UNCHANGED <<deviceMemoryBufferMap, deviceMemory, timestampValidBits, queryPool,
                    vkCalls, runPc, runStatus, updateStatus, setupVars,
                    memVars, attrVars, patVars, destroyVars>>

\* the overload taking the whole table
setResourceDataMap(resData) ==
  /\ NotStarted
  /\ resourceData' = resData
  /\ hostMemory' = HostBuffers(resData)
  /\ UNCHANGED <<resourceStorageClassData, deviceMemoryBufferMap, deviceMemory,
                 timestampValidBits, queryPool, vkCalls, runPc, runStatus, updateStatus,
                 setupVars, memVars, attrVars, patVars, destroyVars>>

setShaderModule(shader, size) ==
  /\ NotStarted
  /\ binary' = shader
  /\ binarySize' = size
  /\ UNCHANGED <<vkVars, memorySize, initStatus, initCalls, stClassData,
                 memVars, attrVars, patVars, destroyVars>>

\* the loops over resourceData, visiting the resources in `order` from the
\* j-th on, with memorySize at `size`
RECURSIVE countDeviceMemorySize(_, _, _)
countDeviceMemorySize(order, j, size) ==
  IF j > Len(order) THEN [memorySize |-> size, ok |-> TRUE]
  ELSE IF resourceData[order[j]].size # 0
    THEN countDeviceMemorySize(order, j + 1, size + resourceData[order[j]].size)
    ELSE [memorySize |-> size, ok |-> FALSE]

\* run is called once initRuntime has returned success
initRuntime ==
  /\ NotStarted
  /\ initCalls < MaxInitCalls
  /\ initCalls' = initCalls + 1
  /\ \E order \in ResourceOrders(resourceData) :
       LET counted == countDeviceMemorySize(order, 1, memorySize)
           ok == /\ DOMAIN resourceData # {}
                 /\ ~(binarySize = 0 \/ binary = "nullptr")
                 /\ counted.ok
       IN /\ memorySize' =
               IF DOMAIN resourceData = {} \/ binarySize = 0 \/ binary = "nullptr"
                 THEN memorySize ELSE counted.memorySize
          /\ initStatus' = IF ok THEN "success" ELSE "failure"
          /\ runPc' = IF ok THEN "createInstance" ELSE "idle"
  /\ UNCHANGED <<resourceData, resourceStorageClassData, hostMemory, deviceMemoryBufferMap,
                 deviceMemory, timestampValidBits, queryPool, vkCalls, runStatus, updateStatus,
                 binary, binarySize, stClassData, memVars, attrVars, patVars, destroyVars>>

\* a runtime just constructed
InitRt ==
  /\ MemIdle
  /\ AttrIdle
  /\ PatIdle
  /\ VkIdle

\* the setters and initRuntime in any order, then run as far as createMemoryBuffers
NextRt ==
  \/ \E m \in SetupClassMaps : setResourceStorageClassBindingMap(m)
  \/ \E p \in SetupResources, size \in SetupSizes :
       setResourceData(p[1], p[2], [size |-> size])
  \/ \E resData \in SetupTables : setResourceDataMap(resData)
  \/ \E shader \in {"nullptr", "spv"}, size \in 0..1 : setShaderModule(shader, size)
  \/ initRuntime
  \/ createInstance
  \/ createDevice
  \/ createMemoryBuffers

SpecRt == InitRt /\ [][NextRt]_vars

(***************************************************************************)
(* The runtime given a resource table and run                              *)
(***************************************************************************)
ResourceDomains ==
  {{<<0, 0>>}, {<<0, 0>>, <<0, 1>>}, {<<0, 1>>, <<1, 0>>}, {<<0, 0>>, <<1, 0>>, <<1, 1>>}}

ResourceTables == UNION {[D -> [size : 1..MaxBufferSize]] : D \in ResourceDomains}

\* a storage class for every resource, or for all but one
StorageClassMaps(table) ==
  {[p \in DOMAIN table |-> c] : c \in StorageClasses}
    \cup {[p \in DOMAIN table \ {q} |-> "StorageBuffer"] : q \in DOMAIN table}

InitVk ==
  /\ MemIdle
  /\ AttrIdle
  /\ PatIdle
  /\ resourceData \in ResourceTables
  /\ resourceStorageClassData \in StorageClassMaps(resourceData)
  /\ hostMemory = [p \in DOMAIN resourceData |-> HostBytes(p, resourceData[p].size)]
  /\ deviceMemoryBufferMap = <<>>
  /\ deviceMemory = <<>>
  /\ timestampValidBits \in {0, 64}
  /\ queryPool = "VK_NULL_HANDLE"
  /\ vkCalls = <<>>
  /\ runPc = "createInstance"
  /\ runStatus = "none"
  /\ updateStatus = "none"
  /\ binary = "spv"
  /\ binarySize = 1
  /\ memorySize = TotalSize(resourceData)
  /\ initStatus = "success"
  /\ initCalls = 1
  /\ stClassData = resourceStorageClassData
  /\ destroyCalls = <<>>
  /\ destroyStatus = "none"

NextVk ==
  \/ createInstance
  \/ createDevice
  \/ createMemoryBuffers
  \/ createShaderModule
  \/ createDescriptorSetLayout
  \/ createPipelineLayout
  \/ createComputePipeline
  \/ createDescriptorPool
  \/ allocateDescriptorSets
  \/ setWriteDescriptors
  \/ createCommandPool
  \/ createQueryPool
  \/ createComputeCommandBuffer
  \/ submitCommandBuffersToQueue
  \/ vkQueueWaitIdle
  \/ updateHostMemoryBuffers
  \/ destroy

SpecVk == InitVk /\ [][NextVk]_vars

(***************************************************************************)
(* Properties of the concurrent narrow store and load                      *)
(***************************************************************************)
Ratio == TargetBits \div srcBits

WordOf(i) == i \div Ratio

SlotOf(i) == i % Ratio

\* the sb-bit element stored in slot k of a word, as a value
Field(word, k, sb) == {b - k * sb : b \in {c \in word : k * sb <= c /\ c < (k + 1) * sb}}

LowBits(v, sb) == {b \in v : b < sb}

StoringTo(w) == {l \in Writers : lanes[l].kind = "store" /\ WordOf(lanes[l].idx) = w}

\* C1: lanes that run the emulated narrow store (atomic AND with the clear mask,
\* then atomic OR with the insert value) on one word at pairwise different
\* sub-element offsets leave, under every interleaving of the atomic steps, each
\* lane's low sourceBits bits in that lane's bit range and the initial contents in
\* every bit range no lane wrote.
C1_DisjointStoresAllLand ==
  srcBits < TargetBits =>
    \A w \in WordIdx :
      ( /\ \A l \in StoringTo(w) : lanes[l].pc = "done"
        /\ \A l1, l2 \in StoringTo(w) : l1 # l2 => lanes[l1].idx # lanes[l2].idx )
      => /\ \A l \in StoringTo(w) :
              Field(mem[w], SlotOf(lanes[l].idx), srcBits) = LowBits(lanes[l].val, srcBits)
         /\ \A k \in 0..(Ratio - 1) :
              (\A l \in StoringTo(w) : SlotOf(lanes[l].idx) # k)
                => Field(mem[w], k, srcBits) = Field(mem0[w], k, srcBits)

C1_Witness ==
  /\ srcBits < TargetBits
  /\ \E w \in WordIdx :
       /\ Cardinality(StoringTo(w)) >= 2
       /\ Cardinality(StoringTo(w)) < Ratio
       /\ \A l \in StoringTo(w) : lanes[l].pc = "done"
       /\ \A l1, l2 \in StoringTo(w) : l1 # l2 => lanes[l1].idx # lanes[l2].idx
       /\ mem[w] # mem0[w]

OldElement(i) == Field(mem0[WordOf(i)], SlotOf(i), srcBits)

LoadRacesStore ==
  /\ srcBits < TargetBits
  /\ lanes[Observer].kind = "load"
  /\ lanes[Observer].pc = "done"
  /\ lanes[1].kind = "store"
  /\ lanes[1].idx = lanes[Observer].idx

\* C2 as stated: a narrow load of element i concurrent with a narrow store to
\* element i observes the element's value before the store or the value being
\* stored, never any other value.
C2_LoadSeesOldOrNew ==
  LoadRacesStore =>
    lanes[Observer].got \in {OldElement(lanes[1].idx), LowBits(lanes[1].val, srcBits)}

\* C2 amended: a narrow load of element i concurrent with a narrow store to
\* element i observes the element's value before the store, the value being
\* stored, or zero (the field as the atomic AND leaves it until the atomic OR).
C2_LoadSeesOldNewOrCleared ==
  LoadRacesStore =>
    lanes[Observer].got \in {OldElement(lanes[1].idx), LowBits(lanes[1].val, srcBits), {}}

C2_Witness ==
  /\ LoadRacesStore
  /\ lanes[1].pc = "or"
  /\ lanes[Observer].got = {}
  /\ OldElement(lanes[1].idx) # {}

\* C3: a narrow load at index i followed by a narrow store of the loaded value
\* at i, with no other writer, leaves element i, every other element of that
\* word and every other word unchanged, for 8-, 16- and 32-bit elements in
\* 32-bit words.
C3_LoadStoreRoundTrip ==
  ( /\ lanes[Observer].kind = "copy"
    /\ lanes[Observer].pc = "done"
    /\ \A l \in Writers : lanes[l].kind = "idle" )
  => \A w \in WordIdx : \A k \in 0..(Ratio - 1) :
       Field(mem[w], k, srcBits) = Field(mem0[w], k, srcBits)

C3_Witness ==
  /\ lanes[Observer].kind = "copy"
  /\ lanes[Observer].pc = "done"
  /\ \A l \in Writers : lanes[l].kind = "idle"
  /\ srcBits < TargetBits
  /\ lanes[Observer].got # {}
  /\ WordOf(lanes[Observer].idx) = 1
  /\ SlotOf(lanes[Observer].idx) = Ratio - 1

(***************************************************************************)
(* Properties of the attribute conversion                                  *)
(***************************************************************************)
\* the integer a source attribute denotes, read as two's complement
SignedValue(a) == IF 2 * a.value >= Pow2(a.width) THEN a.value - Pow2(a.width) ELSE a.value

FitsUnsigned(v, N) == 0 <= v /\ v < Pow2(N)

FitsSigned(v, N) == -Pow2(N - 1) <= v /\ v < Pow2(N - 1)

\* C4: convertIntegerAttr to an N-bit type: a value v that fits N bits unsigned
\* converts to v unchanged; a value that fits only as signed N-bit two's
\* complement converts to its N-bit two's-complement bit pattern; a value that
\* fits neither gives the null attribute.  v is the attribute's value as the
\* integer its bits denote in two's complement.
C4_ConvertIntegerAttr ==
  attrPc = "out" =>
    LET v == SignedValue(srcAttr)
        N == dstWidth
    IN /\ FitsUnsigned(v, N) =>
            dstAttr = [null |-> FALSE, width |-> N, value |-> v]
       /\ (~FitsUnsigned(v, N) /\ FitsSigned(v, N)) =>
            dstAttr = [null |-> FALSE, width |-> N, value |-> v + Pow2(N)]
       /\ (~FitsUnsigned(v, N) /\ ~FitsSigned(v, N)) => dstAttr = NullAttr

C4_Witness ==
  /\ attrPc = "out"
  /\ srcAttr.width > dstWidth
  /\ SignedValue(srcAttr) < 0
  /\ dstAttr.null = FALSE
  /\ dstAttr.value >= Pow2(dstWidth - 1)
  /\ dstWidth > 1

(***************************************************************************)
(* Properties of the patterns                                              *)
(***************************************************************************)
\* C5: whenever typeConverter.convertType answers with no type, the pattern
\* that asked reports failure and emits no replacement (unary/binary, bitwise,
\* XOR, constant, type-casting and integer load/store patterns alike).
C5_ConvertFailureIsReported ==
  res.convNull => (res.status = "failure" /\ res.created = <<>> /\ res.edit = "none")

NarrowAccess(o) ==
  /\ o.name \in {"LoadOp", "StoreOp"}
  /\ o.elemSignless
  /\ o.dstType # NullType
  /\ o.srcBits < o.dstType.width

\* C6: a narrow load or store (sourceBits < targetBits) whose access chain does
\* not have exactly two indices makes the pattern report failure, with no
\* adjusted address, load or atomic emitted.
C6_NonLinearAccessFails ==
  ( /\ res.pattern \in {"IntLoadOpPattern", "IntStoreOpPattern"}
    /\ NarrowAccess(op)
    /\ op.numIndices # 2 )
  => (res.status = "failure" /\ res.created = <<>> /\ res.edit = "none")

\* C7: a pattern invocation that reports failure has created, replaced and
\* erased no operation; an operation on which every registered pattern failed
\* is left as it was.
C7_FailureLeavesIRUnchanged ==
  res.status = "failure" =>
    (res.created = <<>> /\ res.edit = "none" /\ res.erased = {} /\ res.newAttr = <<>>)

C7_Witness ==
  /\ res.status = "failure"
  /\ tried = PatternsFor(op.name)
  /\ Cardinality(tried) = 2

IntegerOrVectorOfInteger(t) ==
  t.kind = "integer" \/ (t.kind = "vector" /\ t.elemKind = "integer")

OneBitOperand(o) == IntegerOrVectorOfInteger(o.operandType) /\ o.operandType.width = 1

WiderOperand(o) == IntegerOrVectorOfInteger(o.operandType) /\ o.operandType.width > 1

\* C8: an AND or OR whose result type converts is replaced by the logical
\* opcode (LogicalAnd / LogicalOr) when its operands are 1-bit integers, scalar
\* or vector, and by the bitwise opcode (BitwiseAnd / BitwiseOr) when they are
\* integers of any wider width.
C8_AndOrOpcode ==
  (res.pattern = "BitwiseOpPattern" /\ op.dstType # NullType) =>
    /\ res.status = "success"
    /\ res.edit = "replaceOpWithNewOp"
    /\ OneBitOperand(op) =>
         res.created = <<IF op.name = "AndOp" THEN "spv.LogicalAnd" ELSE "spv.LogicalOr">>
    /\ WiderOperand(op) =>
         res.created = <<IF op.name = "AndOp" THEN "spv.BitwiseAnd" ELSE "spv.BitwiseOr">>

C8_Witness ==
  /\ res.pattern = "BitwiseOpPattern"
  /\ op.name = "OrOp"
  /\ op.operandType = VecI1
  /\ res.created = <<"spv.LogicalOr">>

\* C9: an XOR on 1-bit integer operands (scalar or vector) is never converted:
\* the XOR pattern reports failure and emits nothing; an XOR on wider integers
\* whose result type converts is replaced by BitwiseXor.
C9_XOrOnBoolUnsupported ==
  /\ (op.name = "XOrOp" /\ OneBitOperand(op)) => res.status # "success"
  /\ res.pattern = "XOrOpPattern" =>
       /\ OneBitOperand(op) =>
            (res.status = "failure" /\ res.created = <<>> /\ res.edit = "none")
       /\ (WiderOperand(op) /\ op.dstType # NullType) =>
            (res.status = "success" /\ res.created = <<"spv.BitwiseXor">>
               /\ res.edit = "replaceOpWithNewOp")

C9_Witness ==
  /\ res.pattern = "XOrOpPattern"
  /\ op.operandType = VecI1
  /\ op.dstType # NullType
  /\ res.status = "failure"

\* the cast family and the opcode each cast maps to
CastFamily ==
  [IndexCastOp |-> "spv.SConvert", SignExtendIOp |-> "spv.SConvert",
   ZeroExtendIOp |-> "spv.UConvert", TruncateIOp |-> "spv.SConvert",
   SIToFPOp |-> "spv.ConvertSToF", FPToSIOp |-> "spv.ConvertFToS",
   FPExtOp |-> "spv.FConvert", FPTruncOp |-> "spv.FConvert"]

CastLowered(o) ==
  IF o.dstType = o.operandType
    THEN res.status = "success" /\ res.edit = "replaceOp" /\ res.with = "operand"
           /\ res.created = <<>>
    ELSE res.status = "success" /\ res.edit = "replaceOpWithNewOp"
           /\ res.created = <<CastFamily[o.name]>>

RelationalPredicates == {"slt", "sle", "sgt", "sge", "ult", "ule", "ugt", "uge"}

CmpITargets ==
  [eq |-> "spv.IEqual", ne |-> "spv.INotEqual",
   slt |-> "spv.SLessThan", sle |-> "spv.SLessThanEqual",
   sgt |-> "spv.SGreaterThan", sge |-> "spv.SGreaterThanEqual",
   ult |-> "spv.ULessThan", ule |-> "spv.ULessThanEqual",
   ugt |-> "spv.UGreaterThan", uge |-> "spv.UGreaterThanEqual"]

\* C11: once the patterns registered for an integer comparison have been tried,
\* a comparison of 1-bit integers is converted for eq and ne only (to
\* LogicalEqual / LogicalNotEqual); for the eight relational predicates both
\* BoolCmpIOpPattern and CmpIOpPattern have failed and nothing is emitted; a
\* comparison of integers of any other width is replaced by the opcode fixed
\* for its predicate, for each of the ten predicates.
C11_CmpIOnOneBit ==
  (op.name = "CmpIOp" /\ Settled /\ op.operandType.kind = "integer") =>
    IF op.operandType.width = 1
      THEN IF op.pred \in RelationalPredicates
             THEN /\ res.status = "failure"
                  /\ tried = {"BoolCmpIOpPattern", "CmpIOpPattern"}
                  /\ res.created = <<>> /\ res.edit = "none"
             ELSE /\ res.status = "success"
                  /\ res.pattern = "BoolCmpIOpPattern"
                  /\ res.created =
                       <<IF op.pred = "eq" THEN "spv.LogicalEqual" ELSE "spv.LogicalNotEqual">>
      ELSE /\ res.status = "success"
           /\ res.pattern = "CmpIOpPattern"
           /\ res.edit = "replaceOpWithNewOp"
           /\ res.created = <<CmpITargets[op.pred]>>

C11_Witness ==
  /\ op.name = "CmpIOp"
  /\ op.operandType = IntegerType(1)
  /\ op.pred = "slt"
  /\ tried = {"BoolCmpIOpPattern", "CmpIOpPattern"}
  /\ res.status = "failure"

OrderedPredicates == {"OEQ", "OGT", "OGE", "OLT", "OLE", "ONE"}

UnorderedPredicates == {"UEQ", "UGT", "UGE", "ULT", "ULE", "UNE"}

CmpFTargets ==
  [OEQ |-> "spv.FOrdEqual", OGT |-> "spv.FOrdGreaterThan",
   OGE |-> "spv.FOrdGreaterThanEqual", OLT |-> "spv.FOrdLessThan",
   OLE |-> "spv.FOrdLessThanEqual", ONE |-> "spv.FOrdNotEqual",
   UEQ |-> "spv.FUnordEqual", UGT |-> "spv.FUnordGreaterThan",
   UGE |-> "spv.FUnordGreaterThanEqual", ULT |-> "spv.FUnordLessThan",
   ULE |-> "spv.FUnordLessThanEqual", UNE |-> "spv.FUnordNotEqual"]

\* what CmpFOpPattern emits for a comparison with predicate p
CmpFEmitted(p) == CmpFOpPattern([op EXCEPT !.pred = p]).created

\* C12: CmpFOpPattern replaces a comparison with one of the six ordered
\* predicates by the FOrd opcode of that relation and one with one of the six
\* unordered predicates by the FUnord opcode, with operands (lhs, rhs) in that
\* order; no two of the twelve predicates yield the same opcode; for any other
\* predicate it reports failure and emits nothing.
C12_CmpFPredicateTable ==
  res.pattern = "CmpFOpPattern" =>
    /\ IF op.pred \in OrderedPredicates \cup UnorderedPredicates
         THEN /\ res.status = "success"
              /\ res.created = <<CmpFTargets[op.pred]>>
              /\ res.log = <<Call("replaceOpWithNewOp", CmpFTargets[op.pred], "-",
                                  <<"lhs", "rhs">>)>>
         ELSE /\ res.status = "failure"
              /\ res.created = <<>> /\ res.edit = "none" /\ res.log = <<>>
    /\ \A p, q \in OrderedPredicates \cup UnorderedPredicates :
         p # q => CmpFEmitted(p) # CmpFEmitted(q)

C12_Witness ==
  /\ res.pattern = "CmpFOpPattern"
  /\ op.pred = "ULT"
  /\ res.created = <<"spv.FUnordLessThan">>

\* lane l stores the 8-bit value 0xAB to linear index 5
StoresABAtFive(l) ==
  /\ srcBits = 8
  /\ lanes[l].kind = "store"
  /\ lanes[l].idx = 5
  /\ lanes[l].val = ConstantOp(171)

OnlyLane(l) == \A k \in Lanes \ {l} : lanes[k] = IdleLane

\* C13: an 8-bit store of 0xAB at linear index 5 into 32-bit words has bit
\* offset 8, clear mask 0xFFFF00FF and insert value 0xAB00; it performs one
\* atomic AND with the clear mask and then one atomic OR with the insert
\* value, both on word 1, and touches no other word.
C13_StoreABAtIndexFive ==
  \A l \in Writers : StoresABAtFive(l) =>
    /\ getOffsetForBitwidth(5, 8, TargetBits) = 8
    /\ StoreClearBitsMask(5, 8, TargetBits) = AllBits \ (8..15)
    /\ StoreInsertValue(lanes[l].val, 5, 8, TargetBits) = {8, 9, 11, 13, 15}
    /\ adjustAccessChainForBitwidth(5, 8, TargetBits) = 1
    /\ lanes[l].pc \in {"and", "or", "done"}
    /\ OnlyLane(l) =>
         /\ mem[0] = mem0[0]
         /\ lanes[l].pc = "and" => mem[1] = mem0[1]
         /\ lanes[l].pc = "or" => mem[1] = mem0[1] \ (8..15)
         /\ lanes[l].pc = "done" => mem[1] = (mem0[1] \ (8..15)) \cup {8, 9, 11, 13, 15}

C13_Witness ==
  /\ StoresABAtFive(1)
  /\ OnlyLane(1)
  /\ lanes[1].pc = "done"
  /\ mem0[1] = AllBits
  /\ mem[1] = (AllBits \ (8..15)) \cup {8, 9, 11, 13, 15}

\* the operations of the narrow-access emulation
EmulationOpcodes ==
  {"spv.constant", "spv.SDiv", "spv.SMod", "spv.IMul", "spv.ShiftLeftLogical",
   "spv.ShiftRightArithmetic", "spv.BitwiseAnd", "spv.Not", "spv.AtomicAnd", "spv.AtomicOr"}

Emitted(opcodes) == \E i \in 1..Len(res.created) : res.created[i] \in opcodes

DirectAccess(o) ==
  IF o.name = "LoadOp"
    THEN Call("replaceOpWithNewOp", "spv.Load", "-", <<"accessChainOp">>)
    ELSE Call("replaceOpWithNewOp", "spv.Store", "-", <<"accessChainOp", "value">>)

\* C14: for a memref of signless integers whose element width equals the width
\* of the converted storage element, IntLoadOpPattern / IntStoreOpPattern emit
\* the access chain and one direct load / store on it and nothing else; a
\* division, modulo, shift, mask or atomic is emitted only when the element is
\* narrower than the storage element.
C14_EqualWidthIsDirect ==
  ( /\ res.pattern \in {"IntLoadOpPattern", "IntStoreOpPattern"}
    /\ op.elemSignless
    /\ op.dstType # NullType ) =>
    /\ op.srcBits = op.dstType.width =>
         /\ res.status = "success"
         /\ res.log = <<Call("create", "spv.AccessChain", "accessChainOp",
                             <<"memref", "indices">>),
                        DirectAccess(op)>>
         /\ res.erased = {}
         /\ ~Emitted(EmulationOpcodes)
    /\ Emitted(EmulationOpcodes) => op.srcBits < op.dstType.width

C14_Witness ==
  /\ res.pattern = "IntStoreOpPattern"
  /\ op.srcBits = TargetBits
  /\ op.dstType = IntegerType(TargetBits)
  /\ res.created = <<"spv.AccessChain", "spv.Store">>

\* C15: on a memref whose element type is not a signless integer and whose
\* element width differs from the width of the converted storage element,
\* LoadOpPattern / StoreOpPattern do not convert the operation and emit no
\* direct load or store.
C15_OrdinaryNeedsEqualWidth ==
  ( /\ res.pattern \in {"LoadOpPattern", "StoreOpPattern"}
    /\ ~op.elemSignless
    /\ op.dstType # NullType
    /\ op.srcBits # op.dstType.width ) =>
    (res.status # "success" /\ ~Emitted({"spv.Load", "spv.Store"}))

\* a scalar float constant whose type changes, tried by the scalar pattern
FloatConstantConverted ==
  /\ op.name = "ConstantOp"
  /\ res.pattern = "ConstantScalarOpPattern"
  /\ op.srcType.kind = "float"
  /\ op.dstType # NullType
  /\ op.srcType # op.dstType

\* C18: converting a float constant fails for every destination other than
\* f32; for f32 it succeeds exactly when the conversion to single precision,
\* rounding toward zero, reports opOK and no loss of information, and the
\* constant emitted is then a single-precision number which, converted back
\* to the source format, is the original number.
C18_ConvertFloatAttr ==
  FloatConstantConverted =>
    LET srcVal == op.value.elems[1].fp
        single == convert(srcVal, fltSemantics(32))
    IN IF op.dstType = FloatType(32) /\ single.status = "opOK" /\ ~single.losesInfo
         THEN /\ res.status = "success"
              /\ Len(res.newAttr) = 1
              /\ res.newAttr[1].ekind = "float" /\ res.newAttr[1].width = 32
              /\ convert(res.newAttr[1].fp, fltSemantics(op.srcType.width))
                   = [value |-> srcVal, status |-> "opOK", losesInfo |-> FALSE]
         ELSE res.status = "failure" /\ res.edit = "none" /\ res.created = <<>>

\* a double that is a denormal of single precision, converted
C18_Witness ==
  /\ FloatConstantConverted
  /\ op.srcType = FloatType(64)
  /\ op.value.elems[1].fp = fcNormal(FALSE, -140, {9})
  /\ res.status = "success"
  /\ res.newAttr = <<FloatAttr(32, fcNormal(FALSE, -140, {9}))>>

\* the multi-indices of a shape, and the row-major position of one
IndicesOf(shape) ==
  {idx \in [DOMAIN shape -> 0..(getNumElements(shape) - 1)] :
     \A d \in DOMAIN shape : idx[d] < shape[d]}

RECURSIVE RowMajor(_, _)
RowMajor(idx, shape) ==
  IF shape = <<>> THEN 0
  ELSE Head(idx) * getNumElements(Tail(shape)) + RowMajor(Tail(idx), Tail(shape))

\* the element of a dense attribute at a multi-index
ElementAt(attr, idx) == attr.elems[RowMajor(idx, attr.shape) + 1]

\* a dense vector or tensor constant whose type converts, tried by the
\* composite pattern
CompositeConstantConverted ==
  /\ op.name = "ConstantOp"
  /\ res.pattern = "ConstantCompositeOpPattern"
  /\ op.srcType.kind \in {"vector", "tensor"}
  /\ op.dstType # NullType
  /\ op.value.akind = "dense"

\* what an element becomes under the element type of the converted constant
ConvertedElement(e) ==
  LET srcElemType == getElementType(op.srcType)
      dstElemType == getElementType(op.dstType)
  IN IF srcElemType = dstElemType THEN e
     ELSE IF srcElemType.kind = "float" THEN convertFloatAttr(e, dstElemType)
     ELSE IF isInteger(srcElemType, 1) THEN NullScalarAttr
     ELSE convertIntegerElement(e, dstElemType)

\* C19: a dense composite constant of rank 1, or a tensor one of rank > 1,
\* is replaced by a constant holding the converted elements: as many as the
\* product of the shape, the element at each multi-index at its row-major
\* position, in one dimension when the rank is > 1 and in the source's shape
\* otherwise; if any element does not convert the pattern fails and replaces
\* nothing; a vector constant of rank > 1 always fails.
C19_CompositeConstant ==
  CompositeConstantConverted =>
    LET shape == op.value.shape
        n == getNumElements(shape)
    IN IF op.srcType.kind = "vector" /\ op.srcType.rank > 1
         THEN res.status = "failure" /\ res.edit = "none" /\ res.created = <<>>
       ELSE IF \E idx \in IndicesOf(shape) :
                 ConvertedElement(ElementAt(op.value, idx)) = NullScalarAttr
         THEN res.status = "failure" /\ res.edit = "none" /\ res.created = <<>>
       ELSE /\ res.status = "success"
            /\ res.created = <<"spv.constant">>
            /\ Len(res.newAttr) = n
            /\ res.newAttrType.shape = (IF op.srcType.rank > 1 THEN <<n>> ELSE shape)
            /\ res.newAttrType.elemType = getElementType(op.dstType)
            /\ \A idx \in IndicesOf(shape) :
                 res.newAttr[RowMajor(idx, shape) + 1]
                   = ConvertedElement(ElementAt(op.value, idx))

\* a 2x3 tensor of doubles converted to six single-precision elements
C19_Witness ==
  /\ CompositeConstantConverted
  /\ op.srcType.kind = "tensor"
  /\ op.value.shape = <<2, 3>>
  /\ getElementType(op.dstType) = FloatType(32)
  /\ res.status = "success"
  /\ res.newAttrType.shape = <<6>>
  /\ res.newAttr[RowMajor(<<1, 0>>, <<2, 3>>) + 1] = FloatAttr(32, fcNormal(FALSE, 2, {}))

\* a store emulated in wider words
EmulatedStore ==
  /\ op.name = "StoreOp"
  /\ res.pattern = "IntStoreOpPattern"
  /\ res.status = "success"
  /\ op.srcBits # op.dstType.width

\* the positions in the rewriter log where an operation of the opcode is created
CreatedAt(opc) == {i \in DOMAIN res.log : res.log[i].call = "create" /\ res.log[i].opc = opc}

\* the position of the operation a value name stands for at position i: the
\* last one before i bound to that name (0 when there is none)
DefinitionOf(name, i) ==
  LET before == {j \in 1..(i - 1) : res.log[j].call = "create" /\ res.log[j].result = name}
  IN IF before = {} THEN 0 ELSE CHOOSE j \in before : \A k \in before : k <= j

\* the positions where something is erased
ErasedAt(what) ==
  {i \in DOMAIN res.log : res.log[i].call = "eraseOp" /\ res.log[i].args = <<what>>}

\* C20: an emulated narrow store creates exactly one AtomicAnd and one
\* AtomicOr, the AtomicAnd first; both take as pointer the one access chain
\* built by the address adjustment, with scope Device and semantics
\* AcquireRelease; the AtomicAnd takes the negated mask and the AtomicOr the
\* shifted value; the store and then the original access chain are erased
\* after both, and no operation created uses the original access chain.
C20_AtomicAndThenOr ==
  EmulatedStore =>
    \E a \in CreatedAt("spv.AtomicAnd"), o \in CreatedAt("spv.AtomicOr") :
      /\ CreatedAt("spv.AtomicAnd") = {a}
      /\ CreatedAt("spv.AtomicOr") = {o}
      /\ a < o
      /\ SubSeq(res.log[a].args, 1, 3) = <<"adjustedPtr", "Device", "AcquireRelease">>
      /\ SubSeq(res.log[o].args, 1, 3) = <<"adjustedPtr", "Device", "AcquireRelease">>
      /\ DefinitionOf("adjustedPtr", a) = DefinitionOf("adjustedPtr", o)
      /\ DefinitionOf("adjustedPtr", a) # 0
      /\ res.log[DefinitionOf("adjustedPtr", a)].opc = "spv.AccessChain"
      /\ res.log[DefinitionOf("adjustedPtr", a)].args[1] = "base_ptr"
      /\ DefinitionOf(res.log[a].args[4], a) # 0
      /\ res.log[DefinitionOf(res.log[a].args[4], a)].opc = "spv.Not"
      /\ DefinitionOf(res.log[o].args[4], o) # 0
      /\ res.log[DefinitionOf(res.log[o].args[4], o)].opc = "spv.ShiftLeftLogical"
      /\ \E s \in ErasedAt("op"), c \in ErasedAt("accessChainOp") :
           /\ ErasedAt("op") = {s} /\ ErasedAt("accessChainOp") = {c}
           /\ o < s /\ s < c
      /\ res.erased = {"op", "accessChainOp"}
      /\ \A i \in DOMAIN res.log :
           res.log[i].call = "create" =>
             \A k \in DOMAIN res.log[i].args : res.log[i].args[k] # "accessChainOp"

\* an 8-bit store emulated in 32-bit words
C20_Witness ==
  /\ EmulatedStore
  /\ op.srcBits = 8
  /\ op.dstType.width = 32
  /\ op.numIndices = 2
  /\ CreatedAt("spv.AtomicAnd") # {}
  /\ CreatedAt("spv.AtomicOr") # {}
  /\ "accessChainOp" \in res.erased

(***************************************************************************)
(* Properties of the Vulkan runtime                                        *)
(***************************************************************************)
\* the creation calls a submission needs
CreationCalls ==
  {"vkCreateInstance", "vkCreateDevice", "vkAllocateMemory", "vkCreateBuffer",
   "vkBindBufferMemory", "vkCreateShaderModule", "vkCreateDescriptorSetLayout",
   "vkCreatePipelineLayout", "vkCreateComputePipelines", "vkCreateDescriptorPool",
   "vkAllocateDescriptorSets", "vkCreateCommandPool", "vkAllocateCommandBuffers",
   "vkBeginCommandBuffer", "vkEndCommandBuffer"}

\* the i-th call or check made so far did not succeed
Failed(i) == vkCalls[i].result # "VK_SUCCESS"

\* C16: during run, a call or check that failed is the last one made (no
\* device call of any kind follows it) and run has returned failure; run
\* returns failure only then; and the command buffer is submitted only after
\* every creation call was made and succeeded.
C16_RunStopsAtFirstFailure ==
  updateStatus = "none" =>
    /\ \A i \in DOMAIN vkCalls : Failed(i) => i = Len(vkCalls)
    /\ (vkCalls # <<>> /\ Failed(Len(vkCalls))) => (runStatus = "failure" /\ runPc = "returned")
    /\ runStatus = "failure" => (vkCalls # <<>> /\ Failed(Len(vkCalls)))
    /\ \A i \in DOMAIN vkCalls :
         vkCalls[i].api = "vkQueueSubmit" =>
           /\ CreationCalls \subseteq {vkCalls[j].api : j \in 1..(i - 1)}
           /\ \A j \in 1..(i - 1) : ~Failed(j)
    /\ runStatus = "success" =>
         \E i \in DOMAIN vkCalls : vkCalls[i].api = "vkQueueWaitIdle" /\ ~Failed(i)

\* a buffer creation failed after some resource was already set up: run has
\* returned failure and nothing was submitted
C16_Witness ==
  /\ runStatus = "failure"
  /\ Len(vkCalls) > 12
  /\ vkCalls[Len(vkCalls)].api = "vkCreateBuffer"
  /\ Failed(Len(vkCalls))
  /\ \A i \in DOMAIN vkCalls : vkCalls[i].api # "vkQueueSubmit"

\* the device allocation created for resource p
AllocationsOf(p) == {h \in DOMAIN deviceMemory : deviceMemory[h].origin = p}

\* C17: once run has succeeded and updateHostMemoryBuffers has returned
\* success, every host buffer of the resource table holds exactly its `size`
\* bytes of the one device allocation created for its own (set, binding).
C17_HostBuffersReadBack ==
  (runStatus = "success" /\ updateStatus = "success") =>
    \A p \in DOMAIN resourceData :
      /\ Cardinality(AllocationsOf(p)) = 1
      /\ \A h \in AllocationsOf(p) :
           hostMemory[p] = SubSeq(deviceMemory[h].bytes, 1, resourceData[p].size)

\* two bindings of one set read back, each changed by the shader and the two
\* left with different bytes
C17_Witness ==
  /\ runStatus = "success"
  /\ updateStatus = "success"
  /\ {<<0, 0>>, <<0, 1>>} \subseteq DOMAIN resourceData
  /\ hostMemory[<<0, 0>>] # hostMemory[<<0, 1>>]
  /\ \A p \in DOMAIN resourceData : hostMemory[p] # HostBytes(p, resourceData[p].size)

(***************************************************************************)
(* Properties of the emulated load and store of one lane                   *)
(***************************************************************************)
\* the observer has run the emulated narrow load
NarrowLoadDone ==
  /\ srcBits < TargetBits
  /\ lanes[Observer].kind = "load"
  /\ lanes[Observer].pc = "done"

\* no lane stores
NoWriter == \A l \in Writers : lanes[l].kind = "idle"

\* C21: the emulated narrow load (load of the whole word, arithmetic shift
\* right by the bit offset, AND with (1 << sourceBits) - 1) of element i
\* returns a value with no bit set at or above sourceBits, and, when nothing
\* is stored meanwhile, exactly the sourceBits-wide field of element i of the
\* word, also when the word's top bit is set.
C21_LoadReturnsUnsignedField ==
  NarrowLoadDone =>
    /\ lanes[Observer].got \subseteq 0..(srcBits - 1)
    /\ NoWriter =>
         lanes[Observer].got
           = Field(mem0[WordOf(lanes[Observer].idx)], SlotOf(lanes[Observer].idx), srcBits)

\* the top element of a word whose top bit is set, loaded: the shift has
\* brought in sign bits and the mask removed them
C21_Witness ==
  /\ NarrowLoadDone
  /\ NoWriter
  /\ SlotOf(lanes[Observer].idx) = Ratio - 1
  /\ (TargetBits - 1) \in mem0[WordOf(lanes[Observer].idx)]
  /\ mem0[WordOf(lanes[Observer].idx)] # AllBits
  /\ (srcBits - 1) \in lanes[Observer].got

\* C22: with r = targetBits / sourceBits, every access of the element at
\* linear index i (i >= 0) computes a word index and a bit offset with
\* wordIndex * r + offset / sourceBits = i and the offset one of 0,
\* sourceBits, ..., targetBits - sourceBits; the load, the atomic AND and the
\* atomic OR of one index compute the same word index and the same offset.
C22_WordIndexAndOffset ==
  srcBits < TargetBits =>
    \A l \in Lanes : \A k \in DOMAIN lanes[l].at :
      LET wordIndex == lanes[l].at[k][1]
          offset == lanes[l].at[k][2]
      IN /\ wordIndex * Ratio + offset \div srcBits = lanes[l].idx
         /\ offset \in {s * srcBits : s \in 0..(Ratio - 1)}
         /\ lanes[l].at[k] = lanes[l].at[1]

\* the 8-bit element 5 loaded and stored back: word 1, offset 8, three times
C22_Witness ==
  /\ srcBits = 8
  /\ lanes[Observer].kind = "copy"
  /\ lanes[Observer].idx = 5
  /\ lanes[Observer].at = <<<<1, 8>>, <<1, 8>>, <<1, 8>>>>

\* lane 1 is the only lane that stores and its emulated narrow store is done
SingleWriterDone ==
  /\ srcBits < TargetBits
  /\ lanes[1].kind = "store"
  /\ lanes[1].pc = "done"
  /\ \A l \in Lanes \ {1} : lanes[l].kind \in {"idle", "load"}

\* what the emulated narrow load of element j returns from memory m
NarrowLoadOf(m, j) == LoadExtract(m[WordOf(j)], j, srcBits, TargetBits)

\* C26: with a single writer, after the emulated narrow store of value v
\* (possibly with bits set above sourceBits) to element i, the emulated
\* narrow load of element i returns v mod 2^sourceBits and the emulated
\* narrow load of every other element returns what it returned before the
\* store; the insert value has no bit in common with the clear mask.
C26_StoreThenLoad ==
  SingleWriterDone =>
    /\ \A j \in ElemIdx(srcBits) :
         NarrowLoadOf(mem, j)
           = IF j = lanes[1].idx THEN LowBits(lanes[1].val, srcBits)
             ELSE NarrowLoadOf(mem0, j)
    /\ BitwiseAndOp(StoreInsertValue(lanes[1].val, lanes[1].idx, srcBits, TargetBits),
                    StoreClearBitsMask(lanes[1].idx, srcBits, TargetBits)) = {}
    /\ (lanes[Observer].kind = "load" /\ lanes[Observer].pc = "done"
          /\ lanes[Observer].idx # lanes[1].idx) =>
         lanes[Observer].got = NarrowLoadOf(mem0, lanes[Observer].idx)

\* 0xFFFF5A5A stored to an 8-bit element at a non-zero offset of an all-ones
\* word, then loaded by the observer: the load returns 0x5A
C26_Witness ==
  /\ SingleWriterDone
  /\ srcBits = 8
  /\ SlotOf(lanes[1].idx) > 0
  /\ mem0[WordOf(lanes[1].idx)] = AllBits
  /\ (TargetBits - 1) \in lanes[1].val
  /\ lanes[Observer].kind = "load"
  /\ lanes[Observer].pc = "done"
  /\ lanes[Observer].idx = lanes[1].idx
  /\ lanes[Observer].got = LowBits(lanes[1].val, srcBits)
  /\ lanes[Observer].got # AllBits \cap (0..(srcBits - 1))

(***************************************************************************)
(* Properties of the edits and of the dispatch                             *)
(***************************************************************************)
\* the rewriter calls of the last invocation that edit the operation itself
EditsOfOp ==
  {i \in DOMAIN res.log :
     \/ res.log[i].call \in {"replaceOpWithNewOp", "replaceOp"}
     \/ res.log[i].call = "eraseOp" /\ res.log[i].args = <<"op">>}

\* the value given to replaceOp is the result of an operation this invocation built
BuiltHere(value) ==
  \E i \in DOMAIN res.log : res.log[i].call = "create" /\ res.log[i].result = value

ReplacedByNew ==
  \/ res.edit = "replaceOpWithNewOp"
  \/ res.edit = "replaceOp" /\ BuiltHere(res.with)

Forwarded == res.edit = "replaceOp" /\ ~BuiltHere(res.with)

ErasedOnly == res.edit = "eraseOp"

\* C23: a pattern invocation that returns success has made exactly one edit
\* of the operation: it replaced it by an operation it built, or forwarded an
\* existing value in its place, or erased it; it erases only a store (which
\* has no result) that it emulated, and forwards only the operand of a cast
\* whose converted result type is the operand's type.
C23_OneEditPerSuccess ==
  res.status = "success" =>
    /\ Cardinality(EditsOfOp) = 1
    /\ ReplacedByNew \/ Forwarded \/ ErasedOnly
    /\ ErasedOnly =>
         (op.name = "StoreOp" /\ res.pattern = "IntStoreOpPattern"
            /\ op.srcBits # op.dstType.width)
    /\ Forwarded =>
         (op.name \in DOMAIN TypeCastingOps /\ res.with = "operand"
            /\ op.dstType = op.operandType)

\* an index cast whose converted result type is its operand's type, the
\* operand forwarded and nothing built
C23_Witness ==
  /\ res.status = "success"
  /\ Forwarded
  /\ op.name = "IndexCastOp"
  /\ op.dstType = IntegerType(32)
  /\ op.operandType = IntegerType(32)
  /\ res.created = <<>>
  /\ res.log = <<Call("replaceOp", "-", "-", <<"operand">>)>>

\* what a pattern registered for two-pattern operations does on o
PatternOutcome(p, o) ==
  CASE p = "ConstantCompositeOpPattern" -> ConstantCompositeOpPattern(o)
    [] p = "ConstantScalarOpPattern" -> ConstantScalarOpPattern(o)
    [] p = "BoolCmpIOpPattern" -> BoolCmpIOpPattern(o)
    [] p = "CmpIOpPattern" -> CmpIOpPattern(o)
    [] p = "IntLoadOpPattern" -> IntLoadOpPattern(o)
    [] p = "LoadOpPattern" -> LoadOpPattern(o)
    [] p = "IntStoreOpPattern" -> IntStoreOpPattern(o)
    [] p = "StoreOpPattern" -> StoreOpPattern(o)

\* the patterns registered for the operation that do not report failure on it
Accepting == {p \in PatternsFor(op.name) : PatternOutcome(p, op).status # "failure"}

\* C24: an operation of a kind with two registered patterns (constant,
\* cmpi, load, store) is accepted by at most one of them; whichever is tried
\* first, the dispatch ends with that pattern's outcome, or with failure
\* when neither accepts.
C24_DispatchOrderIrrelevant ==
  Cardinality(PatternsFor(op.name)) = 2 =>
    /\ Cardinality(Accepting) <= 1
    /\ res.status \in {"success", "crash"} =>
         (res.pattern \in Accepting /\ res = PatternOutcome(res.pattern, op))
    /\ (tried = PatternsFor(op.name) /\ res.status = "failure") => Accepting = {}
    /\ (tried = PatternsFor(op.name) /\ Accepting # {}) => res.pattern \in Accepting

\* a load the ordinary pattern was tried on first and rejected, then
\* converted by the integer pattern
C24_Witness ==
  /\ op.name = "LoadOp"
  /\ tried = {"IntLoadOpPattern", "LoadOpPattern"}
  /\ res.pattern = "IntLoadOpPattern"
  /\ res.status = "success"
  /\ Accepting = {"IntLoadOpPattern"}

\* the integer comparison opcodes
IntegerCompareOpcodes == {CmpITargets[p] : p \in DOMAIN CmpITargets}

\* C25: an integer comparison whose operands are vectors of 1-bit integers
\* is never replaced by an integer comparison opcode: it becomes a logical
\* opcode or is rejected.
C25_BoolVectorCompareNotInteger ==
  (op.name = "CmpIOp" /\ op.operandType.kind = "vector"
     /\ isBoolScalarOrVector(op.operandType)) =>
    /\ \A i \in DOMAIN res.created : res.created[i] \notin IntegerCompareOpcodes
    /\ res.status = "success" =>
         res.created \in {<<"spv.LogicalEqual">>, <<"spv.LogicalNotEqual">>}

\* C27: for a vector or tensor constant whose type converts and whose value
\* is not a dense-elements attribute, the composite pattern reports failure
\* and has not read the absent attribute.
C27_AbsentAttributeNeverRead ==
  (/\ op.name = "ConstantOp"
   /\ res.pattern = "ConstantCompositeOpPattern"
   /\ op.srcType.kind \in {"vector", "tensor"}
   /\ op.dstType # NullType
   /\ op.value.akind # "dense") =>
    /\ res.status = "failure"
    /\ ~res.readNull

(***************************************************************************)
(* Properties of the setters, initRuntime and destroy                      *)
(***************************************************************************)
\* C28: whatever the order in which setResourceStorageClassBindingMap and
\* setResourceData were called, every buffer createMemoryBuffers has built
\* for a resource that the storage-class map last supplied names has the
\* descriptor type and the buffer usage of the storage class the map gives it.
C28_StorageClassOfTheMap ==
  \A s \in DOMAIN deviceMemoryBufferMap : \A i \in DOMAIN deviceMemoryBufferMap[s] :
    LET memBuffer == deviceMemoryBufferMap[s][i]
        p == <<s, memBuffer.bindingIndex>>
    IN p \in DOMAIN stClassData =>
         /\ memBuffer.descriptorType = mapStorageClassToDescriptorType(stClassData[p])
         /\ memBuffer.bufferUsage = mapStorageClassToBufferUsageFlag(stClassData[p])

\* C30: a call of initRuntime returns failure when there is no resource,
\* when the shader binary is null or of size zero, or when a bound resource
\* has size zero; when it returns success, memorySize is the sum of the sizes
\* of the bound resources, also when initRuntime had been called before.
C30_InitRuntimeCountsMemory ==
  [][initCalls' # initCalls =>
       /\ (\/ DOMAIN resourceData = {}
           \/ binary = "nullptr"
           \/ binarySize = 0
           \/ \E p \in DOMAIN resourceData : resourceData[p].size = 0) =>
            initStatus' = "failure"
       /\ initStatus' = "success" => memorySize' = TotalSize(resourceData)]_vars

\* the call that creates an object and the call of destroy that releases it
ReleasedBy ==
  {<<"vkAllocateCommandBuffers", "vkFreeCommandBuffers">>,
   <<"vkCreateQueryPool", "vkDestroyQueryPool">>,
   <<"vkCreateCommandPool", "vkDestroyCommandPool">>,
   <<"vkAllocateDescriptorSets", "vkFreeDescriptorSets">>,
   <<"vkCreateDescriptorPool", "vkDestroyDescriptorPool">>,
   <<"vkCreateComputePipelines", "vkDestroyPipeline">>,
   <<"vkCreatePipelineLayout", "vkDestroyPipelineLayout">>,
   <<"vkCreateDescriptorSetLayout", "vkDestroyDescriptorSetLayout">>,
   <<"vkCreateShaderModule", "vkDestroyShaderModule">>,
   <<"vkAllocateMemory", "vkFreeMemory">>,
   <<"vkCreateBuffer", "vkDestroyBuffer">>,
   <<"vkCreateDevice", "vkDestroyDevice">>,
   <<"vkCreateInstance", "vkDestroyInstance">>}

\* the successful calls of `api` during run
CreatedBy(api) ==
  {i \in DOMAIN vkCalls : vkCalls[i].api = api /\ vkCalls[i].result = "VK_SUCCESS"}

\* the calls of `api` made by destroy
ReleasesBy(api) == {i \in DOMAIN destroyCalls : destroyCalls[i].api = api}

\* C29: destroy calls vkDeviceWaitIdle first and frees or destroys nothing
\* unless it returned success; when destroy succeeds, every object run
\* created is released exactly once (as many releases as creations, no handle
\* twice, the memory and the buffer of every device allocation among them),
\* the device is destroyed after all of them and the instance last.
C29_DestroyAfterIdleExactlyOnce ==
  /\ destroyStatus = "none" <=> destroyCalls = <<>>
  /\ destroyCalls # <<>> =>
       /\ destroyCalls[1].api = "vkDeviceWaitIdle"
       /\ Len(destroyCalls) > 1 => destroyCalls[1].result = "VK_SUCCESS"
       /\ destroyStatus = "failure" <=> destroyCalls[1].result # "VK_SUCCESS"
  /\ destroyStatus = "success" =>
       /\ \A pair \in ReleasedBy :
            CreatedBy(pair[1]) # {} =>
              Cardinality(ReleasesBy(pair[2])) = Cardinality(CreatedBy(pair[1]))
       /\ \A i, j \in DOMAIN destroyCalls :
            (destroyCalls[i].api = destroyCalls[j].api
               /\ destroyCalls[i].handle = destroyCalls[j].handle) => i = j
       /\ \A h \in DOMAIN deviceMemory :
            \A api \in {"vkFreeMemory", "vkDestroyBuffer"} :
              \E i \in ReleasesBy(api) : destroyCalls[i].handle = h
       /\ destroyCalls[Len(destroyCalls)].api = "vkDestroyInstance"
       /\ destroyCalls[Len(destroyCalls) - 1].api = "vkDestroyDevice"

\* a run with a query pool, two descriptor sets and three buffers, destroyed
C29_Witness ==
  /\ destroyStatus = "success"
  /\ queryPool = "created"
  /\ Cardinality(DOMAIN deviceMemoryBufferMap) = 2
  /\ Len(deviceMemory) = 3
  /\ Len(destroyCalls) = 19
  /\ Cardinality(ReleasesBy("vkDestroyBuffer")) = 3

====
